---- MODULE Spec2Model ----
(***************************************************************************)
(* Model of the link-moderation bot (src/bot.py): the permission caches,   *)
(* the link filter, the spam counter with its mute escalation, the chat    *)
(* migration of the live authorization check, the membership handler and   *)
(* the scheduled reminder / auto-leave jobs.                               *)
(*                                                                         *)
(* The platform (Telegram) is the environment: tg_bot and tg_admins hold   *)
(* what get_chat_member would answer, and every call of a handler may fail *)
(* (the set F of call sites that raise in this run of the handler).        *)
(* Time is the integer clock of time.time(); it moves by the steps Deltas. *)
(***************************************************************************)
EXTENDS Integers, Sequences, FiniteSets, TLC

\* ------------------------------------------------------------ constants
LINK_LIMIT == 3
MUTE_SECONDS == 600
SPAM_RESET_SECONDS == 3600
LINK_SPAM_CACHE_TTL == 7200
ADMIN_VERIFY_SECONDS == 300
OWNER_ID == 0
BATCH_SIZE == 500
PROGRESS_EVERY == 50
BAR_BLOCKS == 10
SEND_TRIES == 5

\* ------------------------------------------------------------ bounds
StartTime == 10000
MaxTicks == 3
MaxTicksMigrate == 1
MaxTicksRestart == 2
MaxTicksFilter == 1
MaxTicksJobs == 2
MaxTicksWrites == 2
MaxFaults == 1
MaxDbTasks == 4
MaxEvents == 1
MaxEnvChanges == 2
MaxRestarts == 1
MaxRuns == 1
MaxId == 602

Deltas == {10, 600, 3601}

Chats == {1, 2}
Users == {OWNER_ID, 10}

\* One chat is followed: a baseline group with id 1 which the platform may
\* upgrade to a supergroup, whose id is 2 from then on.
ChatType(c) == IF c = 1 THEN "group" ELSE "supergroup"

\* The id a migrated chat moved to (ChatMigrated.new_chat_id).
NewChatId(c) == IF c = 1 THEN 2 ELSE 1

\* What the platform holds for the bot in a chat: administrator with the
\* delete and restrict rights, with delete only, with neither; plain member;
\* not reachable (left, kicked, chat deleted); chat migrated to a new id.
BotStates == {"admin_dr", "admin_d", "admin_0", "member", "gone", "migrated"}

\* The call sites of a handler that may raise; a run of a handler is told
\* apart by the sites, among those it reaches, that raise.
FaultSites == {"gcm_bot", "gcm_user", "delete", "db_read", "restrict", "send", "leave"}

VARIABLES
    now,                 \* int(time.time())
    ticks,               \* clock steps taken (bounded by MaxTicks)
    BOT_ADMIN_CACHE,     \* set of chat ids
    USER_ADMIN_CACHE,    \* chat id -> set of user ids
    REMINDER_MESSAGES,   \* chat id -> sequence of message ids
    ADMIN_VERIFY_CACHE,  \* chat id -> time of the last live check
    LINK_SPAM_CACHE,     \* <<chat id, user id>> -> [count, last_time, mute_until]
    groups,              \* table groups: group_id -> [is_admin_cached, last_checked_at]
    link_spam,           \* table link_spam: <<chat_id, user_id>> -> [count, last_time]
    db_tasks,            \* fire-and-forget writes created and not yet applied
    jobs,                \* the job queue
    tg_bot,              \* platform: chat id -> BotStates
    tg_admins,           \* platform: set of <<chat id, user id>> that are administrators
    events,              \* my_chat_member updates not yet handled
    env_changes,         \* platform changes so far (bounded)
    restarts,            \* process restarts so far (bounded)
    users,               \* table users: set of user ids
    PENDING_BROADCAST,   \* the owner's draft: "none" or its content
    bc,                  \* the broadcast run in progress: locals of broadcast_target_handler
    tg_reach,            \* platform: how a private chat answers a send, where not "ok"
    suspended,           \* the job waiting for the answer to its check of the bot, if any
    last                 \* what the last step did: operation, input, calls, results

vars == <<now, ticks, BOT_ADMIN_CACHE, USER_ADMIN_CACHE, REMINDER_MESSAGES,
          ADMIN_VERIFY_CACHE, LINK_SPAM_CACHE, groups, link_spam, db_tasks, jobs,
          tg_bot, tg_admins, events, env_changes, restarts, users,
          PENDING_BROADCAST, bc, tg_reach, suspended, last>>

\* The recipient directory's user table, the draft and the run of a broadcast.
bcast == <<users, PENDING_BROADCAST, bc, tg_reach>>

\* ------------------------------------------------------------ dict helpers
EmptyMap == [x \in {} |-> 0]
Put(f, k, v) == [x \in (DOMAIN f) \cup {k} |-> IF x = k THEN v ELSE f[x]]
Pop(f, k) == [x \in (DOMAIN f) \ {k} |-> f[x]]
Get(f, k, d) == IF k \in DOMAIN f THEN f[k] ELSE d

\* ------------------------------------------------------------ link detection
\* Text is a sequence of one-character strings; str.lower() on the letters used.
Lower(ch) ==
    CASE ch = "H" -> "h" [] ch = "T" -> "t" [] ch = "P" -> "p" [] ch = "S" -> "s"
      [] ch = "M" -> "m" [] ch = "E" -> "e" [] ch = "X" -> "x"
      [] OTHER -> ch
LowerText(t) == [i \in 1..Len(t) |-> Lower(t[i])]
Contains(sub, t) ==
    \E i \in 1..(Len(t) - Len(sub) + 1) : SubSeq(t, i, i + Len(sub) - 1) = sub

MarkHttp == <<"h", "t", "t", "p", ":", "/", "/">>
MarkHttps == <<"h", "t", "t", "p", "s", ":", "/", "/">>
MarkTme == <<"t", ".", "m", "e", "/">>

\* A filter that takes any entity, and any "http", for a link.
has_link_loose(msg) ==
    \/ msg.entities \o msg.caption_entities # <<>>
    \/ Contains(<<"h", "t", "t", "p">>, LowerText(msg.text \o msg.caption))

\* auto_delete_links, lines 621-634
has_link(msg) ==
    LET entities == msg.entities \o msg.caption_entities
        byEntity == \E i \in 1..Len(entities) : entities[i] \in {"url", "text_link"}
        text == LowerText(IF msg.text # <<>> THEN msg.text ELSE msg.caption)
    IN  byEntity \/ Contains(MarkHttp, text) \/ Contains(MarkHttps, text)
                 \/ Contains(MarkTme, text)

\* ------------------------------------------------------------ platform answers
IsAdminStatus(st) == st \in {"admin_dr", "admin_d", "admin_0"}
CanDelete(st) == st \in {"admin_dr", "admin_d"}
CanRestrict(st) == st = "admin_dr"

\* ChatMember.status of the bot as the membership updates report it.
StatusOf(st) ==
    IF IsAdminStatus(st) THEN "administrator"
    ELSE IF st = "member" THEN "member" ELSE "left"

\* context.bot.get_chat_member(chat_id, context.bot.id): "ok" (a ChatMember),
\* "migrated" (ChatMigrated) or "error" (any other exception).
GetBotMember(chat_id, F) ==
    IF "gcm_bot" \in F THEN "error"
    ELSE IF tg_bot[chat_id] = "migrated" THEN "migrated"
    ELSE IF tg_bot[chat_id] = "gone" THEN "error"
    ELSE "ok"

\* context.bot.get_chat_member(chat_id, user_id): "administrator", "member" or
\* "error"; a chat the bot cannot reach answers no call.
GetUserMember(chat_id, user_id, F) ==
    IF "gcm_user" \in F \/ tg_bot[chat_id] \in {"gone", "migrated"} THEN "error"
    ELSE IF <<chat_id, user_id>> \in tg_admins THEN "administrator"
    ELSE "member"

\* msg.delete(): succeeds only where the bot holds the delete right.
DeleteSucceeds(chat_id, F) == "delete" \notin F /\ CanDelete(tg_bot[chat_id])

\* restrict_chat_member: succeeds only where the bot holds the restrict right.
RestrictSucceeds(chat_id, F) == "restrict" \notin F /\ CanRestrict(tg_bot[chat_id])

\* send_message: succeeds where the bot is in the chat.
SendSucceeds(chat_id, F) == "send" \notin F /\ tg_bot[chat_id] \notin {"gone", "migrated"}

\* ------------------------------------------------------------ records
ApiCall(api, chat, user, note) == [api |-> api, chat |-> chat, user |-> user, note |-> note]
DbTask(op, chat, user, count, time, admin) ==
    [op |-> op, chat |-> chat, user |-> user, count |-> count, time |-> time, admin |-> admin]
UpsertGroup(gid, admin, at) == DbTask("upsert_group", gid, 0, 0, at, admin)
UpdateGroup(gid, admin, at) == DbTask("update_group", gid, 0, 0, at, admin)
DeleteGroup(gid) == DbTask("delete_group", gid, 0, 0, 0, FALSE)
DeleteSpamChat(chat) == DbTask("delete_spam_chat", chat, 0, 0, 0, FALSE)
DeleteSpam(chat, user) == DbTask("delete_spam", chat, user, 0, 0, FALSE)
InsertUser(user) == DbTask("insert_user", 0, user, 0, 0, FALSE)
\* UPDATE groups SET group_id = new WHERE group_id = old; the new id travels in
\* the field user.
RenameGroup(old, new) == DbTask("rename_group", old, new, 0, 0, FALSE)
UpsertSpam(chat, user, count, last_time) == DbTask("upsert_link_spam", chat, user, count, last_time, FALSE)

Job(name, chat, run_at, count) == [name |-> name, chat |-> chat, run_at |-> run_at, count |-> count]

\* A job callback between its await of get_chat_member and the return of the
\* call: the job, the answer on its way, and whether the chat was in
\* BOT_ADMIN_CACHE when the call was made.
Suspended(job, answer, flagged) ==
    [waiting |-> TRUE, job |-> job, answer |-> answer, flagged |-> flagged]
NoSuspend == [waiting |-> FALSE, job |-> Job("none", 0, 0, 0), answer |-> "none",
              flagged |-> FALSE]

\* What link_spam_control did; "none" when it was not invoked.
NoSpam == [called |-> FALSE, src |-> "none", prev_count |-> 0, prev_last |-> 0,
           prev_mute |-> 0, count |-> 0, ret |-> FALSE, chat |-> 0, user |-> 0]

\* The process memory a handler works on, with the calls it has made.
Mem == [BOT_ADMIN_CACHE |-> BOT_ADMIN_CACHE, USER_ADMIN_CACHE |-> USER_ADMIN_CACHE,
        REMINDER_MESSAGES |-> REMINDER_MESSAGES, ADMIN_VERIFY_CACHE |-> ADMIN_VERIFY_CACHE,
        LINK_SPAM_CACHE |-> LINK_SPAM_CACHE, db_tasks |-> db_tasks, jobs |-> jobs,
        calls |-> <<>>, sites |-> {}, migrated |-> <<>>, auth |-> "none",
        user_admin |-> "none", deleted |-> "none", spam |-> NoSpam]

\* A platform call whose outcome the code ignores, and one whose outcome it
\* acts on (site is then the call site that may raise).
Called(s, api, chat, user, note) == [s EXCEPT !.calls = Append(@, ApiCall(api, chat, user, note))]
Asked(s, api, chat, user, note, site) ==
    [s EXCEPT !.calls = Append(@, ApiCall(api, chat, user, note)), !.sites = @ \cup {site}]
CreateTask(s, t) == [s EXCEPT !.db_tasks = @ \cup {t}]
Result(s, ret) == [s |-> s, ret |-> ret]

\* ------------------------------------------------------------ permission cache
\* clear_reminders, lines 149-159
clear_reminders(js, chat_id) ==
    {j \in js : ~(j.chat = chat_id /\ j.name \in {"auto_leave", "admin_reminder"})}

\* lines 228-264: the RAM and DB migration of ensure_bot_admin_live
MigrateLinkSpamCache(lsc, chat_id, new_id) ==
    LET moved == {k \in DOMAIN lsc : k[1] = chat_id}
        kept == {k \in DOMAIN lsc : k[1] # chat_id}
        dom == kept \cup {<<new_id, k[2]>> : k \in moved}
    IN  [k \in dom |->
            IF k[1] = new_id /\ <<chat_id, k[2]>> \in moved
            THEN lsc[<<chat_id, k[2]>>] ELSE lsc[k]]

MigrateRam(s, chat_id, new_id) ==
    [s EXCEPT
        !.BOT_ADMIN_CACHE = IF chat_id \in @ THEN (@ \ {chat_id}) \cup {new_id} ELSE @,
        !.USER_ADMIN_CACHE = Put(Pop(@, chat_id), new_id, Get(@, chat_id, {})),
        !.REMINDER_MESSAGES = Put(Pop(@, chat_id), new_id, Get(@, chat_id, <<>>)),
        !.LINK_SPAM_CACHE = MigrateLinkSpamCache(@, chat_id, new_id),
        !.migrated = Append(@, <<chat_id, new_id>>)]

MigrateDb(s, chat_id, new_id, t) ==
    CreateTask(CreateTask(CreateTask(s, UpsertGroup(new_id, TRUE, t)),
                          DeleteGroup(chat_id)), DeleteSpamChat(chat_id))

\* lines 268-273 and 295-297
DropChat(s, chat_id) ==
    [s EXCEPT !.BOT_ADMIN_CACHE = @ \ {chat_id},
              !.USER_ADMIN_CACHE = Pop(@, chat_id),
              !.REMINDER_MESSAGES = Pop(@, chat_id)]

\* A verification that is never taken as recent.
VerifiedNever(t, lastv) == FALSE

\* line 219: the last live check is recent enough
VerifiedRecently(t, lastv) == t - lastv < ADMIN_VERIFY_SECONDS

\* ensure_bot_admin_live, lines 216-320
RECURSIVE ensure_bot_admin_live(_, _, _, _)
ensure_bot_admin_live(s, chat_id, t, F) ==
    LET lastv == Get(s.ADMIN_VERIFY_CACHE, chat_id, 0) IN
    IF VerifiedRecently(t, lastv)
    THEN Result(s, chat_id \in s.BOT_ADMIN_CACHE)
    ELSE
      LET s1 == Asked([s EXCEPT !.ADMIN_VERIFY_CACHE = Put(@, chat_id, t)],
                      "get_chat_member", chat_id, -1, "bot", "gcm_bot")
          me == GetBotMember(chat_id, F)
      IN  CASE me = "migrated" ->
                 ensure_bot_admin_live(
                     MigrateDb(MigrateRam(s1, chat_id, NewChatId(chat_id)),
                               chat_id, NewChatId(chat_id), t),
                     NewChatId(chat_id), t, F)
            [] me = "error" -> Result(DropChat(s1, chat_id), FALSE)
            [] OTHER ->
                 IF IsAdminStatus(tg_bot[chat_id]) /\ CanDelete(tg_bot[chat_id])
                 THEN Result(CreateTask([s1 EXCEPT !.BOT_ADMIN_CACHE = @ \cup {chat_id}],
                                        UpsertGroup(chat_id, TRUE, t)), TRUE)
                 ELSE Result(
                        [CreateTask(DropChat(s1, chat_id), UpsertGroup(chat_id, FALSE, t))
                           EXCEPT !.jobs = @ \cup {Job("auto_leave", chat_id, t + 60, 0)}],
                        FALSE)

\* An administrator check that remembers whoever it was asked about.
is_user_admin_caches_all(s, chat_id, user_id, F) ==
    LET s1 == [s EXCEPT !.USER_ADMIN_CACHE =
                   IF chat_id \in DOMAIN @ THEN @ ELSE Put(@, chat_id, {})]
    IN  IF user_id \in s1.USER_ADMIN_CACHE[chat_id]
        THEN Result(s1, TRUE)
        ELSE
          LET s2 == Asked(s1, "get_chat_member", chat_id, user_id, "user", "gcm_user") IN
          Result([s2 EXCEPT !.USER_ADMIN_CACHE[chat_id] = @ \cup {user_id}],
                 GetUserMember(chat_id, user_id, F) = "administrator")

\* An administrator check that fills the cache but asks the platform every time.
is_user_admin_uncached(s, chat_id, user_id, F) ==
    LET s1 == [s EXCEPT !.USER_ADMIN_CACHE =
                   IF chat_id \in DOMAIN @ THEN @ ELSE Put(@, chat_id, {})]
        s2 == Asked(s1, "get_chat_member", chat_id, user_id, "user", "gcm_user")
    IN  IF GetUserMember(chat_id, user_id, F) = "administrator"
        THEN Result([s2 EXCEPT !.USER_ADMIN_CACHE[chat_id] = @ \cup {user_id}], TRUE)
        ELSE Result(s2, FALSE)

\* is_user_admin, lines 322-333
is_user_admin(s, chat_id, user_id, F) ==
    LET s1 == [s EXCEPT !.USER_ADMIN_CACHE =
                   IF chat_id \in DOMAIN @ THEN @ ELSE Put(@, chat_id, {})]
    IN  IF user_id \in s1.USER_ADMIN_CACHE[chat_id]
        THEN Result(s1, TRUE)
        ELSE
          LET s2 == Asked(s1, "get_chat_member", chat_id, user_id, "user", "gcm_user") IN
          IF GetUserMember(chat_id, user_id, F) = "administrator"
          THEN Result([s2 EXCEPT !.USER_ADMIN_CACHE[chat_id] = @ \cup {user_id}], TRUE)
          ELSE Result(s2, FALSE)

\* ------------------------------------------------------------ spam counter
SpamEntry(count, last_time, mute_until) ==
    [count |-> count, last_time |-> last_time, mute_until |-> mute_until]

\* The record of one run of link_spam_control, for the step's observation.
SpamSeen(s, chat_id, user_id, src, prev, ret) ==
    [s EXCEPT !.spam =
        [called |-> TRUE, src |-> src, prev_count |-> prev.count,
         prev_last |-> prev.last_time, prev_mute |-> prev.mute_until,
         count |-> Get(s.LINK_SPAM_CACHE, <<chat_id, user_id>>, SpamEntry(0, 0, 0)).count,
         ret |-> ret, chat |-> chat_id, user |-> user_id]]

\* A counter that never starts over.
NextCountNoReset(t, last_time, count) == count + 1

\* A mute window that is never seen as open.
MuteOpenNever(t, mute_until) == FALSE

\* lines 690-696 and 716-718: is the violation counted, and as what
Cooldown(t, last_time) == t - last_time < MUTE_SECONDS
NextCount(t, last_time, count) ==
    IF t - last_time > SPAM_RESET_SECONDS THEN 1 ELSE count + 1

\* lines 687-689: an open mute window
MuteOpen(t, mute_until) == mute_until # 0 /\ t < mute_until

\* lines 751-755: the cache entry written after a successful restriction
MutedEntry(data, t) == SpamEntry(data.count, t, t + MUTE_SECONDS)

\* lines 725-760: persist below the limit, restrict at the limit
Escalate(s, chat_id, chat_type, user_id, t, F) ==
    LET key == <<chat_id, user_id>>
        data == s.LINK_SPAM_CACHE[key]
    IN  IF data.count < LINK_LIMIT
        THEN Result(CreateTask(s, UpsertSpam(chat_id, user_id, data.count, data.last_time)), FALSE)
        ELSE IF chat_type # "supergroup" THEN Result(s, FALSE)
        ELSE
          LET s1 == Asked(s, "get_chat_member", chat_id, -1, "can_restrict", "gcm_bot") IN
          IF GetBotMember(chat_id, F) # "ok" \/ ~CanRestrict(tg_bot[chat_id])
          THEN Result(s1, FALSE)
          ELSE
            LET s2 == Asked(s1, "restrict_chat_member", chat_id, user_id, "mute", "restrict") IN
            IF ~RestrictSucceeds(chat_id, F) THEN Result(s2, FALSE)
            ELSE Result(CreateTask([s2 EXCEPT !.LINK_SPAM_CACHE[key] = MutedEntry(data, t)],
                                   DeleteSpam(chat_id, user_id)), TRUE)

\* link_spam_control, lines 681-760
link_spam_control(s, chat_id, chat_type, user_id, t, F) ==
    LET key == <<chat_id, user_id>> IN
    IF key \in DOMAIN s.LINK_SPAM_CACHE
    THEN
      LET data == s.LINK_SPAM_CACHE[key] IN
      IF MuteOpen(t, data.mute_until) THEN Result(SpamSeen(s, chat_id, user_id, "cache", data, TRUE), TRUE)
      ELSE IF Cooldown(t, data.last_time) THEN Result(SpamSeen(s, chat_id, user_id, "cache", data, FALSE), FALSE)
      ELSE
        LET s1 == [s EXCEPT !.LINK_SPAM_CACHE[key] =
                       [data EXCEPT !.count = NextCount(t, data.last_time, data.count),
                                    !.last_time = t]]
            r == Escalate(s1, chat_id, chat_type, user_id, t, F)
        IN  Result(SpamSeen(r.s, chat_id, user_id, "cache", data, r.ret), r.ret)
    ELSE
      LET s0 == [s EXCEPT !.sites = @ \cup {"db_read"}]
          found == "db_read" \notin F /\ key \in DOMAIN link_spam
          row == IF found THEN SpamEntry(link_spam[key].count, link_spam[key].last_time, 0)
                 ELSE SpamEntry(0, 0, 0)
          src == IF found THEN "db" ELSE "none"
      IN  IF found /\ Cooldown(t, row.last_time)
          THEN Result(SpamSeen(s0, chat_id, user_id, src, row, FALSE), FALSE)
          ELSE
            LET count == IF found THEN NextCount(t, row.last_time, row.count) ELSE 1
                s1 == [s0 EXCEPT !.LINK_SPAM_CACHE = Put(@, key, SpamEntry(count, t, 0))]
                r == Escalate(s1, chat_id, chat_type, user_id, t, F)
            IN  Result(SpamSeen(r.s, chat_id, user_id, src, row, r.ret), r.ret)

\* ------------------------------------------------------------ link moderation
\* A notice that reports the removal and then the mute as well.
notify_both(s, msg, muted) ==
    LET s1 == Called(s, "send_message", msg.chat, msg.user, "removed") IN
    IF ~muted THEN s1 ELSE Called(s1, "send_message", msg.chat, msg.user, "muted")

\* A handler that reports nothing after a deletion.
notify_nothing(s, msg, muted) == s

\* lines 659-679: the notice after a deletion
notify(s, msg, muted) ==
    IF ~muted THEN Called(s, "send_message", msg.chat, msg.user, "removed")
    ELSE Called(s, "send_message", msg.chat, msg.user, "muted")

\* A handler that counts the violation whether or not the deletion went through.
count_without_delete(s, msg, t, F) ==
    LET s1 == Asked(s, "delete_message", msg.chat, msg.user, "link", "delete")
        s2 == [s1 EXCEPT !.deleted = IF DeleteSucceeds(msg.chat, F) THEN "ok" ELSE "failed"]
        c == link_spam_control(s2, msg.chat, msg.chat_type, msg.user, t, F)
    IN  IF ~c.ret THEN Called(c.s, "send_message", msg.chat, msg.user, "removed")
        ELSE Called(c.s, "send_message", msg.chat, msg.user, "muted")

\* lines 646-679: delete, then count the violation and notify
delete_and_count(s, msg, t, F) ==
    LET s1 == Asked(s, "delete_message", msg.chat, msg.user, "link", "delete") IN
    IF ~DeleteSucceeds(msg.chat, F) THEN [s1 EXCEPT !.deleted = "failed"]
    ELSE
      LET c == link_spam_control([s1 EXCEPT !.deleted = "ok"],
                                 msg.chat, msg.chat_type, msg.user, t, F)
      IN  notify(c.s, msg, c.ret)

\* A gate that lets every link message through, unchecked.
may_moderate_unchecked(s, msg, t, F) == Result(s, TRUE)

\* lines 638-644: the bot must be authorized and the author no administrator
may_moderate(s, msg, t, F) ==
    LET a == ensure_bot_admin_live(s, msg.chat, t, F) IN
    IF ~a.ret THEN Result([a.s EXCEPT !.auth = "no"], FALSE)
    ELSE
      LET b == is_user_admin([a.s EXCEPT !.auth = "yes"], msg.chat, msg.user, F) IN
      IF b.ret THEN Result([b.s EXCEPT !.user_admin = "yes"], FALSE)
      ELSE Result([b.s EXCEPT !.user_admin = "no"], TRUE)

\* auto_delete_links, lines 607-679
auto_delete_links(s, msg, t, F) ==
    IF msg.chat_type \notin {"group", "supergroup"} THEN s
    ELSE IF msg.user = OWNER_ID THEN s
    ELSE IF ~has_link(msg) THEN s
    ELSE
      LET a == may_moderate(s, msg, t, F) IN
      IF ~a.ret THEN a.s ELSE delete_and_count(a.s, msg, t, F)

\* ------------------------------------------------------------ membership events
RECURSIVE DeleteReminderMessages(_, _, _)
DeleteReminderMessages(s, chat_id, mids) ==
    IF mids = <<>> THEN s
    ELSE DeleteReminderMessages(Called(s, "delete_message", chat_id, -1, "reminder"),
                                chat_id, Tail(mids))

\* lines 1073-1085: five reminders, then the auto-leave
ReminderJobs(chat_id, t) ==
    {Job("admin_reminder", chat_id, t + 300 * i, i) : i \in 1..5}
        \cup {Job("auto_leave", chat_id, t + 1510, 0)}

\* A handler of membership updates that leaves the bot-admin cache alone.
on_my_chat_member_keeps_flag(s, ev, t, F) ==
    [s EXCEPT !.USER_ADMIN_CACHE = Pop(@, ev.chat),
              !.jobs = clear_reminders(@, ev.chat)]

\* on_my_chat_member, lines 992-1087
on_my_chat_member(s, ev, t, F) ==
    LET s0 == [s EXCEPT !.USER_ADMIN_CACHE = Pop(@, ev.chat)] IN
    CASE ev.new = "administrator" /\ ev.old # "administrator" ->
           LET s1 == [s0 EXCEPT !.BOT_ADMIN_CACHE = @ \cup {ev.chat},
                                !.jobs = clear_reminders(@, ev.chat)]
               s2 == DeleteReminderMessages(
                         [s1 EXCEPT !.REMINDER_MESSAGES = Pop(@, ev.chat)],
                         ev.chat, Get(s1.REMINDER_MESSAGES, ev.chat, <<>>))
           IN  Called(CreateTask(s2, UpsertGroup(ev.chat, TRUE, t)),
                      "send_message", ev.chat, -1, "welcome")
      [] ev.old = "administrator" /\ ev.new \in {"member", "left", "kicked"} ->
           [s0 EXCEPT !.BOT_ADMIN_CACHE = @ \ {ev.chat},
                      !.jobs = clear_reminders(@, ev.chat)
                                  \cup {Job("auto_leave", ev.chat, t + 60, 0)}]
      [] ev.new = "member" /\ ev.old \in {"left", "kicked"} ->
           LET s1 == Asked([s0 EXCEPT !.BOT_ADMIN_CACHE = @ \ {ev.chat},
                                      !.jobs = clear_reminders(@, ev.chat)],
                           "send_message", ev.chat, -1, "admin_required", "send")
           IN  IF ~SendSucceeds(ev.chat, F) THEN s1
               ELSE [s1 EXCEPT
                       !.REMINDER_MESSAGES =
                           Put(@, ev.chat, Append(Get(@, ev.chat, <<>>), 0)),
                       !.jobs = @ \cup ReminderJobs(ev.chat, t)]
      [] OTHER -> s0

\* ------------------------------------------------------------ scheduled jobs
\* What a job's get_chat_member call on the bot comes back with (lines 961
\* and 1103): the status, or "error" when the call raises.
BotAnswer(chat_id, F) ==
    IF GetBotMember(chat_id, F) # "ok" THEN "error"
    ELSE IF IsAdminStatus(tg_bot[chat_id]) THEN "administrator"
    ELSE "member"

\* leave_if_not_admin, lines 962-990: from the return of its check on; auth
\* records what the check answered: administrator, no administrator, or an
\* error.
leave_after_check(s1, chat_id, t, answer) ==
    IF answer = "administrator"
    THEN [s1 EXCEPT !.BOT_ADMIN_CACHE = @ \cup {chat_id}, !.auth = "yes"]
    ELSE Asked(CreateTask(CreateTask(DropChat([s1 EXCEPT !.auth = IF answer = "member"
                                                                  THEN "no" ELSE "error"],
                                              chat_id),
                                     UpdateGroup(chat_id, FALSE, t)),
                          DeleteSpamChat(chat_id)),
               "leave_chat", chat_id, -1, "leave", "leave")

\* leave_if_not_admin, lines 953-990
leave_if_not_admin(s, chat_id, t, F) ==
    leave_after_check(Asked(s, "get_chat_member", chat_id, -1, "bot", "gcm_bot"),
                      chat_id, t, BotAnswer(chat_id, F))

\* lines 1104-1108 and 1133-1136
ReminderGiveUp(s, chat_id) ==
    [s EXCEPT !.jobs = clear_reminders(@, chat_id),
              !.BOT_ADMIN_CACHE = @ \ {chat_id},
              !.REMINDER_MESSAGES = Pop(@, chat_id)]

\* admin_reminder, lines 1104-1136: from the return of its check on
reminder_after_check(s1, job, t, F, answer) ==
    LET chat_id == job.chat IN
    IF answer = "error" THEN ReminderGiveUp(s1, chat_id)
    ELSE IF answer = "administrator"
    THEN [s1 EXCEPT !.BOT_ADMIN_CACHE = @ \cup {chat_id},
                    !.jobs = clear_reminders(@, chat_id)]
    ELSE
      LET s2 == Asked(s1, "send_message", chat_id, -1, "reminder", "send") IN
      IF ~SendSucceeds(chat_id, F) THEN ReminderGiveUp(s2, chat_id)
      ELSE [s2 EXCEPT !.REMINDER_MESSAGES =
                          Put(@, chat_id, Append(Get(@, chat_id, <<>>), job.count))]

\* admin_reminder, lines 1089-1136
admin_reminder(s, job, t, F) ==
    LET chat_id == job.chat IN
    IF chat_id \in s.BOT_ADMIN_CACHE
    THEN [s EXCEPT !.jobs = clear_reminders(@, chat_id)]
    ELSE reminder_after_check(Asked(s, "get_chat_member", chat_id, -1, "bot", "gcm_bot"),
                              job, t, F, BotAnswer(chat_id, F))

\* cleanup_link_spam_cache, lines 161-169
cleanup_link_spam_cache(lsc, t) ==
    LET keep == {k \in DOMAIN lsc : ~(t - lsc[k].last_time > LINK_SPAM_CACHE_TTL)}
    IN  [k \in keep |-> lsc[k]]

\* ------------------------------------------------------------ persistent store
GroupRow(admin, at) == [is_admin_cached |-> admin, last_checked_at |-> at]
SpamRow(count, last_time) == [count |-> count, last_time |-> last_time]

\* db_execute on table groups, one statement
ApplyGroups(g, t) ==
    CASE t.op = "upsert_group" -> Put(g, t.chat, GroupRow(t.admin, t.time))
      [] t.op = "update_group" ->
           IF t.chat \in DOMAIN g THEN Put(g, t.chat, GroupRow(t.admin, t.time)) ELSE g
      [] t.op = "delete_group" -> Pop(g, t.chat)
      [] t.op = "rename_group" ->
           IF t.chat \in DOMAIN g /\ t.user \notin DOMAIN g
           THEN Put(Pop(g, t.chat), t.user, g[t.chat]) ELSE g
      [] OTHER -> g

\* db_execute on table link_spam, one statement
ApplyLinkSpam(ls, t) ==
    CASE t.op = "upsert_link_spam" -> Put(ls, <<t.chat, t.user>>, SpamRow(t.count, t.time))
      [] t.op = "delete_spam" -> Pop(ls, <<t.chat, t.user>>)
      [] t.op = "delete_spam_chat" -> [k \in {x \in DOMAIN ls : x[1] # t.chat} |-> ls[k]]
      [] OTHER -> ls

\* db_execute on table users, one statement (INSERT ... ON CONFLICT DO NOTHING)
ApplyUsers(u, t) == IF t.op = "insert_user" THEN u \cup {t.user} ELSE u

\* ------------------------------------------------------------ broadcast
\* The content dict of a draft; "" stands for an absent text or file id (the
\* audio and document fields behave as the video field does).
Draft(text, photo, video) == [text |-> text, photo |-> photo, video |-> video]
NoDraft == Draft("", "", "")
\* A test that takes every content, the empty one too, for a draft.
HasContentAlways(d) == TRUE
HasContent(d) == d.text # "" \/ d.photo # "" \/ d.video # ""

\* The locals of broadcast_target_handler between two of its awaits; log and
\* progress record, in order, what the run sent and what it showed.
NoRun == [pc |-> "idle", target |-> "none", data |-> NoDraft, total |-> 0, sent |-> 0,
          offset |-> 0, progress |-> <<>>, log |-> <<>>, runs |-> 0, done |-> FALSE]

WantsUsers(target) == target \in {"bc_target_users", "bc_target_all"}
WantsGroups(target) == target \in {"bc_target_groups", "bc_target_all"}

\* SELECT ... ORDER BY id LIMIT limit OFFSET offset over a set of ids
IdSeq == [i \in 1..MaxId |-> i]
OrderBy(S) == LET Member(x) == x \in S IN SelectSeq(IdSeq, Member)
Min(a, b) == IF a <= b THEN a ELSE b
\* A page that starts one row late.
PageOneLate(S, limit, offset) ==
    LET rows == OrderBy(S) IN SubSeq(rows, offset + 2, Min(offset + limit, Len(rows)))
Page(S, limit, offset) ==
    LET rows == OrderBy(S) IN SubSeq(rows, offset + 1, Min(offset + limit, Len(rows)))

AdminGroups(g) == {c \in DOMAIN g : g[c].is_admin_cached}

\* What the platform answers a send to chat_id: "ok", or the error it raises.
SendAnswer(chat_id) ==
    IF chat_id \in Chats
    THEN CASE tg_bot[chat_id] = "migrated" -> "migrated"
           [] tg_bot[chat_id] = "gone" -> "forbidden"
           [] OTHER -> "ok"
    ELSE Get(tg_reach, chat_id, "ok")

\* The answer to a send that follows earlier sends of the same call of
\* safe_send: a chat that is rate-limited answers RetryAfter once and accepts
\* the next send.
SendAnswerAfter(chat_id, earlier) ==
    IF earlier > 0 /\ SendAnswer(chat_id) = "retry_after" THEN "ok" ELSE SendAnswer(chat_id)

\* update_progress, lines 185-199. int((sent / total) * 100) is the floor of
\* 100 * sent / total at every pair the run calls it with (sent a multiple
\* of 50, or sent = total) for totals up to MaxId.
Percent(sent, total) == IF total <= 0 THEN 100 ELSE (100 * sent) \div total
BarBlocks(percent) == Min(BAR_BLOCKS, percent \div 10)
update_progress(sent, total) ==
    [percent |-> Percent(sent, total), blocks |-> BarBlocks(Percent(sent, total)),
     sent |-> sent, total |-> total]

\* send_content, lines 908-948: one send call chosen by the content, every
\* exception of it caught; raised is what leaves the function.
send_content(chat_id, data, answer) ==
    LET api == IF data.photo # "" THEN "send_photo"
               ELSE IF data.video # "" THEN "send_video"
               ELSE IF data.text # "" THEN "send_message"
               ELSE "none"
    IN  [tries |-> IF api = "none" THEN 0 ELSE 1,
         raised |-> "none",
         delivered |-> api # "none" /\ answer = "ok"]

\* safe_send, lines 821-845, with tries iterations of its loop left
RECURSIVE safe_send(_, _, _)
safe_send(tries, chat_id, data) ==
    IF tries = 0 THEN [chat |-> chat_id, tries |-> 0, delivered |-> FALSE, tasks |-> {}]
    ELSE
      LET r == send_content(chat_id, data, SendAnswerAfter(chat_id, SEND_TRIES - tries))
          again(cid, tasks) ==
              LET rest == safe_send(tries - 1, cid, data)
              IN  [chat |-> rest.chat, tries |-> r.tries + rest.tries,
                   delivered |-> rest.delivered, tasks |-> tasks \cup rest.tasks]
      IN  CASE r.raised = "migrated" ->
                 again(NewChatId(chat_id), {RenameGroup(chat_id, NewChatId(chat_id))})
            [] r.raised = "retry_after" -> again(chat_id, {})
            [] OTHER ->
                 [chat |-> chat_id, tries |-> r.tries, delivered |-> r.delivered,
                  tasks |-> {}]

\* A send_batch after which the page read before it is read again.
send_batch_same_page(run, ids) ==
    [run |-> [run EXCEPT !.offset = @ - BATCH_SIZE], tasks |-> {}]

\* send_batch, lines 876-882, over one page of ids
SentLine(cid, r) == [chat |-> cid, tries |-> r.tries, delivered |-> r.delivered]
send_batch(run, ids) ==
    LET res == [i \in 1..Len(ids) |-> safe_send(SEND_TRIES, ids[i], run.data)]
        Shown(n) == n % PROGRESS_EVERY = 0 \/ n = run.total
        counts == SelectSeq([i \in 1..Len(ids) |-> run.sent + i], Shown)
    IN  [run |-> [run EXCEPT
                    !.sent = @ + Len(ids),
                    !.log = @ \o [i \in 1..Len(ids) |-> SentLine(ids[i], res[i])],
                    !.progress = @ \o [i \in 1..Len(counts) |->
                                          update_progress(counts[i], run.total)]],
         tasks |-> UNION {res[i].tasks : i \in 1..Len(ids)}]

\* ------------------------------------------------------------ inputs
Txt_hi == <<"h", "i">>
Txt_HTTPS == <<"H", "T", "T", "P", "S", ":", "/", "/", "x">>
Txt_http == <<"a", " ", "h", "t", "t", "p", ":", "/", "/", "x">>
Txt_Tme == <<"T", ".", "m", "e", "/", "x">>
Txt_near == <<"h", "t", "t", "p", ":", "/", "t", ".", "m", "e">>

Content(entities, caption_entities, text, caption) ==
    [entities |-> entities, caption_entities |-> caption_entities,
     text |-> text, caption |-> caption]

\* The message contents the handler is fed.
Contents ==
    { Content(<<>>, <<>>, Txt_hi, <<>>),
      Content(<<"mention">>, <<>>, Txt_near, <<>>),
      Content(<<>>, <<"bold">>, <<>>, Txt_hi),
      Content(<<>>, <<>>, Txt_HTTPS, <<>>),
      Content(<<>>, <<>>, <<>>, Txt_http),
      Content(<<>>, <<>>, Txt_Tme, <<>>),
      Content(<<"bold", "url">>, <<>>, Txt_hi, <<>>),
      Content(<<>>, <<"text_link">>, <<>>, Txt_hi) }

\* The drafts the owner writes, the audiences of a run, the users who open
\* the bot while the directory is in use, and the sizes of the user table.
Drafts == {NoDraft, Draft("t", "", ""), Draft("", "p", "")}
Targets == {"bc_target_users", "bc_target_groups", "bc_target_all"}
NewUsers == {100, MaxId}
UserCounts == {0, 1, PROGRESS_EVERY - 1, BATCH_SIZE}
UserTable(n) == 101..(100 + n)
ReachAnswers == {"forbidden", "retry_after"}

NoMsg == [chat |-> 0, chat_type |-> "none", user |-> -1, entities |-> <<>>,
          caption_entities |-> <<>>, text |-> <<>>, caption |-> <<>>]

Faults == {F \in SUBSET FaultSites : Cardinality(F) <= MaxFaults}

\* What a step leaves in last.
Seen(op, chat, msg, s) ==
    [op |-> op, chat |-> chat, msg |-> msg, calls |-> s.calls, migrated |-> s.migrated,
     auth |-> s.auth, user_admin |-> s.user_admin, deleted |-> s.deleted, spam |-> s.spam]
Idle(op) ==
    [op |-> op, chat |-> 0, msg |-> NoMsg, calls |-> <<>>, migrated |-> <<>>,
     auth |-> "none", user_admin |-> "none", deleted |-> "none", spam |-> NoSpam]

Commit(s) ==
    /\ BOT_ADMIN_CACHE' = s.BOT_ADMIN_CACHE
    /\ USER_ADMIN_CACHE' = s.USER_ADMIN_CACHE
    /\ REMINDER_MESSAGES' = s.REMINDER_MESSAGES
    /\ ADMIN_VERIFY_CACHE' = s.ADMIN_VERIFY_CACHE
    /\ LINK_SPAM_CACHE' = s.LINK_SPAM_CACHE
    /\ db_tasks' = s.db_tasks
    /\ jobs' = s.jobs

memory == <<BOT_ADMIN_CACHE, USER_ADMIN_CACHE, REMINDER_MESSAGES, ADMIN_VERIFY_CACHE,
            LINK_SPAM_CACHE, db_tasks, jobs>>

\* A job whose time has come runs before later updates are handled, and a
\* write handed to the executor reaches the store before the next update is
\* handled (the writes of one handler still land in any order).
memoryCaches == <<BOT_ADMIN_CACHE, USER_ADMIN_CACHE, REMINDER_MESSAGES, ADMIN_VERIFY_CACHE,
                  LINK_SPAM_CACHE>>

JobsDue == db_tasks # {} \/ \E j \in jobs : j.run_at <= now

\* ------------------------------------------------------------ state machine
Init ==
    /\ now = StartTime
    /\ ticks = 0
    /\ BOT_ADMIN_CACHE = {}
    /\ USER_ADMIN_CACHE = EmptyMap
    /\ REMINDER_MESSAGES = EmptyMap
    /\ ADMIN_VERIFY_CACHE = EmptyMap
    /\ LINK_SPAM_CACHE = EmptyMap
    /\ groups = EmptyMap
    /\ link_spam = EmptyMap
    /\ db_tasks = {}
    /\ jobs = {}
    /\ tg_bot \in {b \in [Chats -> BotStates] :
                      /\ b[2] # "migrated"
                      /\ b[1] # "migrated" => b[2] = "gone"}
    /\ tg_admins \in {{}, {<<1, 10>>, <<2, 10>>}}
    /\ events = <<>>
    /\ env_changes = 0
    /\ restarts = 0
    /\ users = {}
    /\ PENDING_BROADCAST = NoDraft
    /\ bc = NoRun
    /\ tg_reach = EmptyMap
    /\ suspended = NoSuspend
    /\ last = Idle("start")

\* The chat ids updates can come from: the group, and once it has been
\* upgraded the supergroup as well.
Exists(c) == c = 1 \/ tg_bot[1] = "migrated"

\* A group message reaches auto_delete_links.
HandleMessage(senders, bodies) ==
    \E c \in Chats, u \in senders, body \in bodies, F \in Faults :
      LET msg == [chat |-> c, chat_type |-> ChatType(c), user |-> u,
                  entities |-> body.entities, caption_entities |-> body.caption_entities,
                  text |-> body.text, caption |-> body.caption]
          s == auto_delete_links(Mem, msg, now, F)
      IN  /\ Exists(c)
          /\ F \subseteq s.sites
          /\ Cardinality(s.db_tasks) <= MaxDbTasks
          /\ Commit(s)
          /\ last' = Seen("message", c, msg, s)
          /\ UNCHANGED <<now, ticks, bcast, suspended, groups, link_spam, tg_bot, tg_admins, events,
                         env_changes, restarts>>

\* The message is handled once the writes and the jobs before it are done.
MessageOf(senders, bodies) == ~JobsDue /\ HandleMessage(senders, bodies)

\* A message with a link from a user who is not the owner.
Message == MessageOf(Users \ {OWNER_ID}, {Content(<<>>, <<>>, Txt_HTTPS, <<>>)})

\* Any message, with or without a link, the owner's included.
AnyMessage == MessageOf(Users, Contents)

\* The clock moves on, at most n times.
Advance(n) ==
    \E d \in Deltas :
      /\ ticks < n
      /\ now' = now + d
      /\ ticks' = ticks + 1
      /\ last' = Idle("idle")
      /\ UNCHANGED <<bcast, suspended, memory, groups, link_spam, tg_bot, tg_admins, events,
                     env_changes, restarts>>

\* The clock moves on once the writes and the jobs that are due are done.
TickOf(n) == ~JobsDue /\ Advance(n)

Tick == TickOf(MaxTicks)
TickMigrate == TickOf(MaxTicksMigrate)
TickRestart == TickOf(MaxTicksRestart)
TickFilter == TickOf(MaxTicksFilter)
TickJobs == TickOf(MaxTicksJobs)

\* One fire-and-forget write reaches the store; the order is not fixed.
DbApply ==
    \E t \in db_tasks :
      /\ db_tasks' = db_tasks \ {t}
      /\ groups' = ApplyGroups(groups, t)
      /\ link_spam' = ApplyLinkSpam(link_spam, t)
      /\ last' = Idle("idle")
      /\ users' = ApplyUsers(users, t)
      /\ UNCHANGED <<now, ticks, BOT_ADMIN_CACHE, USER_ADMIN_CACHE, REMINDER_MESSAGES,
                     ADMIN_VERIFY_CACHE, LINK_SPAM_CACHE, jobs, tg_bot, tg_admins,
                     events, env_changes, restarts, PENDING_BROADCAST, bc, tg_reach,
                     suspended>>

\* The platform changes the bot's standing in a chat and reports it.
PlatformBotChange ==
    \E c \in Chats, st \in BotStates :
      /\ env_changes < MaxEnvChanges
      /\ ~JobsDue
      /\ Exists(c)
      /\ tg_bot[c] \notin {st, "migrated"}
      /\ st # "migrated"
      /\ Len(events) < MaxEvents
      /\ tg_bot' = [tg_bot EXCEPT ![c] = st]
      /\ events' = Append(events, [chat |-> c, old |-> StatusOf(tg_bot[c]),
                                   new |-> StatusOf(st)])
      /\ env_changes' = env_changes + 1
      /\ last' = Idle("idle")
      /\ UNCHANGED <<now, ticks, bcast, suspended, memory, groups, link_spam, tg_admins, restarts>>

\* The platform upgrades the group to a supergroup: the old id answers
\* ChatMigrated from now on, the bot keeps its standing under the new id.
PlatformMigrate ==
    /\ env_changes < MaxEnvChanges
    /\ ~JobsDue
    /\ tg_bot[1] \notin {"migrated", "gone"}
    /\ tg_bot' = [tg_bot EXCEPT ![1] = "migrated", ![2] = tg_bot[1]]
    /\ env_changes' = env_changes + 1
    /\ last' = Idle("idle")
    /\ UNCHANGED <<now, ticks, bcast, suspended, memory, groups, link_spam, tg_admins, events, restarts>>

\* The platform promotes or demotes the user of the chat.
PlatformUserChange ==
    \E u \in Users \ {OWNER_ID} :
      /\ env_changes < MaxEnvChanges
      /\ tg_admins' = IF <<1, u>> \in tg_admins THEN {} ELSE {<<1, u>>, <<2, u>>}
      /\ env_changes' = env_changes + 1
      /\ last' = Idle("idle")
      /\ UNCHANGED <<now, ticks, bcast, suspended, memory, groups, link_spam, tg_bot, events, restarts>>

\* A my_chat_member update reaches on_my_chat_member.
OnMyChatMember ==
    \E F \in Faults :
      /\ events # <<>>
      /\ LET s == on_my_chat_member(Mem, Head(events), now, F)
         IN  /\ F \subseteq s.sites
             /\ Cardinality(s.db_tasks) <= MaxDbTasks
             /\ Commit(s)
             /\ last' = Seen("my_chat_member", Head(events).chat, NoMsg, s)
      /\ events' = Tail(events)
      /\ UNCHANGED <<now, ticks, bcast, suspended, groups, link_spam, tg_bot, tg_admins, env_changes, restarts>>

\* The earliest due job of the queue.
Due(j) == j \in jobs /\ j.run_at <= now /\ \A k \in jobs : k.run_at >= j.run_at

\* An auto_leave job runs leave_if_not_admin; a leave_chat that goes through
\* takes the bot out of the chat, which the platform reports.
RunAutoLeave ==
    \E j \in jobs, F \in Faults :
      /\ Due(j) /\ j.name = "auto_leave"
      /\ LET s == leave_if_not_admin([Mem EXCEPT !.jobs = @ \ {j}], j.chat, now, F)
             left == /\ \E i \in 1..Len(s.calls) : s.calls[i].api = "leave_chat"
                     /\ "leave" \notin F
                     /\ tg_bot[j.chat] \notin {"gone", "migrated"}
         IN  /\ F \subseteq s.sites
             /\ Cardinality(s.db_tasks) <= MaxDbTasks
             /\ left => Len(events) < MaxEvents
             /\ Commit(s)
             /\ last' = Seen("auto_leave", j.chat, NoMsg, s)
             /\ tg_bot' = IF left THEN [tg_bot EXCEPT ![j.chat] = "gone"] ELSE tg_bot
             /\ events' = IF left
                          THEN Append(events, [chat |-> j.chat, old |-> StatusOf(tg_bot[j.chat]),
                                               new |-> "left"])
                          ELSE events
      /\ UNCHANGED <<now, ticks, bcast, suspended, groups, link_spam, tg_admins, env_changes, restarts>>

\* An admin_reminder job runs.
RunAdminReminder ==
    \E j \in jobs, F \in Faults :
      /\ Due(j) /\ j.name = "admin_reminder"
      /\ LET s == admin_reminder([Mem EXCEPT !.jobs = @ \ {j}], j, now, F)
         IN  /\ F \subseteq s.sites
             /\ Commit(s)
             /\ last' = Seen("admin_reminder", j.chat, NoMsg, s)
      /\ UNCHANGED <<now, ticks, bcast, suspended, groups, link_spam, tg_bot, tg_admins, events,
                     env_changes, restarts>>

\* A due job starts and makes its check of the bot; the platform answers with
\* the bot's standing of this moment, and the callback waits for the answer.
\* (A reminder for a chat in BOT_ADMIN_CACHE returns before the call, lines
\* 1098-1100, and does not wait.)
JobAsks ==
    \E j \in jobs, F \in Faults :
      /\ ~suspended.waiting
      /\ Due(j) /\ j.name \in {"auto_leave", "admin_reminder"}
      /\ j.name = "admin_reminder" => j.chat \notin BOT_ADMIN_CACHE
      /\ F \subseteq {"gcm_bot"}
      /\ jobs' = jobs \ {j}
      /\ suspended' = Suspended(j, BotAnswer(j.chat, F), j.chat \in BOT_ADMIN_CACHE)
      /\ last' = [Idle("job_asks") EXCEPT
                    !.chat = j.chat,
                    !.calls = <<ApiCall("get_chat_member", j.chat, -1, "bot")>>]
      /\ UNCHANGED <<now, ticks, bcast, memoryCaches, db_tasks, groups, link_spam, tg_bot,
                     tg_admins, events, env_changes, restarts>>

\* The answer arrives and the callback runs to its end.
JobResumes ==
    \E F \in Faults :
      LET j == suspended.job
          s == IF j.name = "auto_leave"
               THEN leave_after_check(Mem, j.chat, now, suspended.answer)
               ELSE reminder_after_check(Mem, j, now, F, suspended.answer)
          left == /\ \E i \in 1..Len(s.calls) : s.calls[i].api = "leave_chat"
                  /\ "leave" \notin F
                  /\ tg_bot[j.chat] \notin {"gone", "migrated"}
      IN  /\ suspended.waiting
          /\ F \subseteq s.sites
          /\ Cardinality(s.db_tasks) <= MaxDbTasks
          /\ left => Len(events) < MaxEvents
          /\ Commit(s)
          /\ suspended' = NoSuspend
          /\ last' = Seen(IF j.name = "auto_leave" THEN "auto_leave_resumed"
                          ELSE "admin_reminder_resumed", j.chat, NoMsg, s)
          /\ tg_bot' = IF left THEN [tg_bot EXCEPT ![j.chat] = "gone"] ELSE tg_bot
          /\ events' = IF left
                       THEN Append(events, [chat |-> j.chat, old |-> StatusOf(tg_bot[j.chat]),
                                            new |-> "left"])
                       ELSE events
          /\ UNCHANGED <<now, ticks, bcast, groups, link_spam, tg_admins, env_changes,
                         restarts>>

\* Time passes while no callback waits for an answer.
TickSuspend == ~suspended.waiting /\ TickOf(MaxTicksJobs)

\* The repeating cleanup job runs.
Cleanup ==
    /\ LINK_SPAM_CACHE' = cleanup_link_spam_cache(LINK_SPAM_CACHE, now)
    /\ LINK_SPAM_CACHE' # LINK_SPAM_CACHE
    /\ last' = Idle("idle")
    /\ UNCHANGED <<now, ticks, bcast, suspended, BOT_ADMIN_CACHE, USER_ADMIN_CACHE, REMINDER_MESSAGES,
                   ADMIN_VERIFY_CACHE, db_tasks, jobs, groups, link_spam, tg_bot,
                   tg_admins, events, env_changes, restarts>>

\* ------------------------------------------------------------ startup
\* refresh_admin_cache, lines 1208-1289: one row of the startup check.
\* st holds the memory (s) and table groups (g); the writes are awaited.
StartupRow(st, gid, t, F) ==
    LET s1 == Asked(st.s, "get_chat_member", gid, -1, "bot", "gcm_bot")
        me == GetBotMember(gid, F)
        new_id == NewChatId(gid)
    IN  CASE me = "ok" ->
               IF IsAdminStatus(tg_bot[gid])
               THEN [s |-> [s1 EXCEPT !.BOT_ADMIN_CACHE = @ \cup {gid}],
                     g |-> ApplyGroups(st.g, UpdateGroup(gid, TRUE, t))]
               ELSE [s |-> s1, g |-> ApplyGroups(st.g, UpdateGroup(gid, FALSE, t))]
          [] me = "migrated" ->
               LET g1 == ApplyGroups(ApplyGroups(st.g, UpsertGroup(new_id, TRUE, t)),
                                     DeleteGroup(gid))
                   s2 == Asked(MigrateRam(s1, gid, new_id),
                               "get_chat_member", new_id, -1, "bot", "gcm_bot")
                   me2 == GetBotMember(new_id, F)
               IN  IF me2 # "ok" THEN [s |-> s2, g |-> g1]
                   ELSE IF IsAdminStatus(tg_bot[new_id])
                   THEN [s |-> [s2 EXCEPT !.BOT_ADMIN_CACHE = @ \cup {new_id}],
                         g |-> ApplyGroups(g1, UpdateGroup(new_id, TRUE, t))]
                   ELSE [s |-> s2, g |-> ApplyGroups(g1, UpdateGroup(new_id, FALSE, t))]
          [] OTHER -> [s |-> s1, g |-> st.g]

\* refresh_admin_cache, lines 1197-1295, over the rows in the order fetched
RECURSIVE refresh_admin_cache(_, _, _, _)
refresh_admin_cache(st, rows, t, F) ==
    IF rows = <<>> THEN st
    ELSE refresh_admin_cache(StartupRow(st, Head(rows), t, F), Tail(rows), t, F)

\* purge_non_admin_groups_verified, lines 1297-1306
purge_non_admin_groups_verified(g, t) ==
    [k \in {x \in DOMAIN g : ~(~g[x].is_admin_cached /\ g[x].last_checked_at = t)} |-> g[k]]

\* The memory of a process that has just started.
FreshMem ==
    [Mem EXCEPT !.BOT_ADMIN_CACHE = {}, !.USER_ADMIN_CACHE = EmptyMap,
                !.REMINDER_MESSAGES = EmptyMap, !.ADMIN_VERIFY_CACHE = EmptyMap,
                !.LINK_SPAM_CACHE = EmptyMap, !.db_tasks = {}, !.jobs = {}]

\* The orders in which SELECT may return the rows with is_admin_cached = TRUE.
AdminRowOrders ==
    LET ids == {gid \in DOMAIN groups : groups[gid].is_admin_cached} IN
    {q \in UNION {[1..n -> ids] : n \in 0..Cardinality(ids)} :
        /\ Len(q) = Cardinality(ids)
        /\ \A i, j \in 1..Len(q) : i # j => q[i] # q[j]}

\* The process stops (memory, job queue and unfinished writes are lost) and
\* starts again: on_startup, lines 1388-1431, drops the pending updates and
\* runs refresh_admin_cache and the purge.
Restart ==
    \E rows \in AdminRowOrders, F \in Faults :
      LET st == refresh_admin_cache([s |-> FreshMem, g |-> groups], rows, now, F) IN
      /\ restarts < MaxRestarts
      /\ F \subseteq st.s.sites
      /\ restarts' = restarts + 1
      /\ Commit(st.s)
      /\ groups' = purge_non_admin_groups_verified(st.g, now)
      /\ events' = <<>>
      /\ last' = Seen("restart", 0, NoMsg, st.s)
      /\ PENDING_BROADCAST' = NoDraft
      /\ bc' = NoRun
      /\ suspended' = NoSuspend
      /\ UNCHANGED <<now, ticks, users, tg_reach, link_spam, tg_bot, tg_admins, env_changes>>

\* ------------------------------------------------------------ broadcast steps
\* Updates are handled one at a time: while broadcast_target_handler runs no
\* other handler starts, but the writes handed to the executor before it
\* started still land, between any two of its reads.
NoUpdateRunning == bc.pc = "idle"

\* The message the broadcast handler receives: its sender, whether its text
\* starts with the command, and the content that comes with it.
BroadcastMsg(sender, command, content) ==
    [user |-> sender, command |-> command, content |-> content]

bcOthers == <<now, ticks, memoryCaches, jobs, groups, link_spam, tg_bot, tg_admins,
              events, env_changes, restarts, tg_reach, suspended>>

\* start in a private chat, lines 338-355 and the reply: a user not yet in the
\* directory opens the bot.
StartCommand ==
    \E u \in NewUsers :
      /\ NoUpdateRunning
      /\ bc.runs < MaxRuns
      /\ u \notin users /\ InsertUser(u) \notin db_tasks
      /\ db_tasks' = db_tasks \cup {InsertUser(u)}
      /\ last' = [Idle("start") EXCEPT !.chat = u,
                                       !.calls = <<ApiCall("reply_text", u, u, "welcome")>>]
      /\ UNCHANGED <<bcOthers, users, PENDING_BROADCAST, bc>>

\* broadcast, lines 765-799
BroadcastCommand ==
    \E sender \in Users, d \in Drafts, command \in BOOLEAN :
      LET stored == sender = OWNER_ID /\ command /\ HasContent(d)
          replied == sender = OWNER_ID /\ command IN
      /\ NoUpdateRunning
      /\ bc.runs < MaxRuns
      /\ PENDING_BROADCAST' = IF stored THEN d ELSE PENDING_BROADCAST
      /\ last' = [Idle("broadcast") EXCEPT
                    !.chat = sender,
                    !.msg = BroadcastMsg(sender, command, d),
                    !.calls = IF replied
                              THEN <<ApiCall("reply_text", sender, sender,
                                             IF stored THEN "confirm" ELSE "no_content")>>
                              ELSE <<>>]
      /\ UNCHANGED <<bcOthers, db_tasks, users, bc>>

\* broadcast_confirm_handler, lines 801-819
BroadcastConfirm ==
    /\ NoUpdateRunning
    /\ last' = [Idle("broadcast_confirm") EXCEPT
                  !.calls = <<ApiCall("edit_message_text", OWNER_ID, OWNER_ID,
                                      IF HasContent(PENDING_BROADCAST)
                                      THEN "choose_target" ELSE "no_data")>>]
    /\ UNCHANGED <<bcOthers, db_tasks, users, PENDING_BROADCAST, bc>>

\* broadcast_cancel_handler, lines 902-906
BroadcastCancel ==
    /\ NoUpdateRunning
    /\ PENDING_BROADCAST' = NoDraft
    /\ last' = [Idle("broadcast_cancel") EXCEPT
                  !.calls = <<ApiCall("edit_message_text", OWNER_ID, OWNER_ID, "cancelled")>>]
    /\ UNCHANGED <<bcOthers, db_tasks, users, bc>>

\* broadcast_target_handler, lines 847-861: up to the first read of the store
BroadcastTarget ==
    \E target \in Targets :
      /\ NoUpdateRunning
      /\ HasContent(PENDING_BROADCAST) => bc.runs < MaxRuns
      /\ PENDING_BROADCAST' = NoDraft
      /\ IF HasContent(PENDING_BROADCAST)
         THEN /\ bc' = [NoRun EXCEPT !.pc = "count_users", !.target = target,
                                     !.data = PENDING_BROADCAST, !.runs = bc.runs + 1]
              /\ last' = [Idle("broadcast_target") EXCEPT
                            !.calls = <<ApiCall("edit_message_text", OWNER_ID, OWNER_ID,
                                                "progress_0")>>]
         ELSE /\ bc' = bc
              /\ last' = [Idle("broadcast_target") EXCEPT
                            !.calls = <<ApiCall("edit_message_text", OWNER_ID, OWNER_ID,
                                                "no_data")>>]
      /\ UNCHANGED <<bcOthers, db_tasks, users>>

\* lines 866-874: the two COUNT(*) reads, one step each
BroadcastCount ==
    /\ bc.pc \in {"count_users", "count_groups"}
    /\ bc' = IF bc.pc = "count_users"
             THEN [bc EXCEPT !.pc = "count_groups",
                             !.total = @ + IF WantsUsers(bc.target)
                                           THEN Cardinality(users) ELSE 0]
             ELSE [bc EXCEPT !.pc = "page_users",
                             !.total = @ + IF WantsGroups(bc.target)
                                           THEN Cardinality(AdminGroups(groups)) ELSE 0]
    /\ last' = Idle("broadcast_count")
    /\ UNCHANGED <<bcOthers, db_tasks, users, PENDING_BROADCAST>>

\* lines 884-892 with iter_db_ids, lines 172-183: one page read and the
\* send_batch of its rows
BroadcastPage ==
    LET wanted == IF bc.pc = "page_users" THEN WantsUsers(bc.target)
                  ELSE WantsGroups(bc.target)
        table == IF bc.pc = "page_users" THEN users ELSE AdminGroups(groups)
        after == IF bc.pc = "page_users" THEN "page_groups" ELSE "finish" IN
    /\ bc.pc \in {"page_users", "page_groups"}
    /\ \E rows \in {IF wanted THEN Page(table, BATCH_SIZE, bc.offset) ELSE <<>>} :
         IF rows = <<>>
         THEN /\ bc' = [bc EXCEPT !.pc = after, !.offset = 0]
              /\ db_tasks' = db_tasks
         ELSE \E batch \in {send_batch(bc, rows)} :
                /\ bc' = [batch.run EXCEPT !.offset = @ + BATCH_SIZE]
                /\ db_tasks' = db_tasks \cup batch.tasks
    /\ last' = Idle("broadcast_page")
    /\ UNCHANGED <<bcOthers, users, PENDING_BROADCAST>>

\* lines 894-900: the closing edit of the progress message
BroadcastFinish ==
    /\ bc.pc = "finish"
    /\ bc' = [bc EXCEPT !.pc = "idle", !.done = TRUE]
    /\ last' = [Idle("broadcast_done") EXCEPT
                  !.calls = <<ApiCall("edit_text", OWNER_ID, OWNER_ID, "completed")>>]
    /\ UNCHANGED <<bcOthers, db_tasks, users, PENDING_BROADCAST>>

\* ------------------------------------------------------------ specifications
\* The moderation pipeline and the spam counter over time.
Next ==
    \/ Message
    \/ Tick
    \/ DbApply
    \/ OnMyChatMember
    \/ RunAutoLeave
    \/ Cleanup

Spec == Init /\ [][Next]_vars

\* The permission cache under platform changes: membership updates, chat
\* migration, reminder jobs.
NextMigrate ==
    \/ Message
    \/ TickMigrate
    \/ DbApply
    \/ PlatformBotChange
    \/ PlatformMigrate
    \/ PlatformUserChange
    \/ OnMyChatMember
    \/ RunAutoLeave
    \/ RunAdminReminder

SpecMigrate == Init /\ [][NextMigrate]_vars

\* The spam counter across process restarts.
NextRestart ==
    \/ Message
    \/ TickRestart
    \/ DbApply
    \/ OnMyChatMember
    \/ RunAutoLeave
    \/ Cleanup
    \/ Restart

SpecRestart == Init /\ [][NextRestart]_vars

\* The link filter on every kind of message.
NextFilter ==
    \/ AnyMessage
    \/ TickFilter
    \/ DbApply
    \/ RunAutoLeave
    \/ OnMyChatMember

SpecFilter == Init /\ [][NextFilter]_vars

\* The reminder and auto-leave jobs of a chat the bot starts in without
\* administrator rights (or outside of).
InitJobs == Init /\ tg_bot[1] \in {"member", "gone"}

NextJobs ==
    \/ Message
    \/ TickJobs
    \/ DbApply
    \/ PlatformBotChange
    \/ OnMyChatMember
    \/ RunAutoLeave
    \/ RunAdminReminder

SpecJobs == InitJobs /\ [][NextJobs]_vars

\* The job callbacks in two steps, with the membership updates that are
\* handled while a callback waits for the platform. The bot starts as
\* administrator, as plain member, or outside the chat.
InitSuspend ==
    /\ Init
    /\ tg_bot[2] = "gone"
    /\ tg_bot[1] \in {"admin_dr", "member", "gone"}
    /\ tg_admins = {}

NextSuspend ==
    \/ TickSuspend
    \/ DbApply
    \/ PlatformBotChange
    \/ OnMyChatMember
    \/ JobAsks
    \/ JobResumes

SpecSuspend == InitSuspend /\ [][NextSuspend]_vars

\* The spam counter with its writes to the store left pending for any length
\* of time: a write handed to the executor is applied at some later point, in
\* no fixed order with the writes of later messages. The chat is a supergroup
\* in which the bot holds the delete and restrict rights.
InitWrites ==
    /\ Init
    /\ tg_bot = [c \in Chats |-> IF c = 1 THEN "migrated" ELSE "admin_dr"]
    /\ tg_admins = {}

MessageWrites ==
    /\ \A j \in jobs : j.run_at > now
    /\ HandleMessage(Users \ {OWNER_ID}, {Content(<<>>, <<>>, Txt_HTTPS, <<>>)})
    /\ last'.msg.chat = 2

TickWrites == Advance(MaxTicksWrites)

NextWrites ==
    \/ MessageWrites
    \/ TickWrites
    \/ DbApply
    \/ Cleanup

SpecWrites == InitWrites /\ [][NextWrites]_vars

\* The broadcast: the owner's draft, the run over the recipient directory, and
\* the users who join it meanwhile. The bot is started with a directory of
\* users and at most one group it administers.
InitBroadcast ==
    /\ now = StartTime
    /\ ticks = 0
    /\ groups \in {EmptyMap, Put(EmptyMap, 1, GroupRow(TRUE, StartTime))}
    /\ BOT_ADMIN_CACHE = AdminGroups(groups)
    /\ USER_ADMIN_CACHE = EmptyMap
    /\ REMINDER_MESSAGES = EmptyMap
    /\ ADMIN_VERIFY_CACHE = EmptyMap
    /\ LINK_SPAM_CACHE = EmptyMap
    /\ link_spam = EmptyMap
    /\ db_tasks = {}
    /\ jobs = {}
    /\ tg_bot \in {[c \in Chats |-> IF c = 1 THEN "admin_dr" ELSE "gone"],
                   [c \in Chats |-> "gone"],
                   [c \in Chats |-> IF c = 1 THEN "migrated" ELSE "admin_dr"]}
    /\ groups = EmptyMap => tg_bot[1] = "gone"
    /\ tg_admins = {}
    /\ events = <<>>
    /\ env_changes = 0
    /\ restarts = 0
    /\ users \in {UserTable(n) : n \in UserCounts}
    /\ PENDING_BROADCAST = NoDraft
    /\ bc = NoRun
    /\ tg_reach \in {EmptyMap} \cup {[u \in {101} |-> a] : a \in ReachAnswers}
    /\ suspended = NoSuspend
    /\ last = Idle("start")

NextBroadcast ==
    \/ StartCommand
    \/ BroadcastCommand
    \/ BroadcastConfirm
    \/ BroadcastCancel
    \/ BroadcastTarget
    \/ BroadcastCount
    \/ BroadcastPage
    \/ BroadcastFinish
    \/ DbApply

SpecBroadcast == InitBroadcast /\ [][NextBroadcast]_vars

\* The broadcast under the event loop's scheduling: a handler that awaits a
\* read of the store or a send is resumed when the awaited call returns.
\* The broadcast under the event loop's scheduling: a handler that awaits a
\* read of the store or a send is resumed when the awaited call returns.
SpecBroadcastFair ==
    /\ SpecBroadcast
    /\ WF_vars(BroadcastCount)
    /\ WF_vars(BroadcastPage)
    /\ WF_vars(BroadcastFinish)

\* ------------------------------------------------------------ properties
\* How many calls of one API method a step made.
Count(calls, api) == Cardinality({i \in 1..Len(calls) : calls[i].api = api})

\* The spam counter key the last step worked on, and its cache entry.
SpamKey(obs) == <<obs.spam.chat, obs.spam.user>>
NoEntry == SpamEntry(0, 0, 0)

\* A message without a url or text_link entity and without one of the three
\* markers in its lowercased text or caption.
LinkFree(msg) ==
    /\ \A i \in 1..Len(msg.entities) : msg.entities[i] \notin {"url", "text_link"}
    /\ \A i \in 1..Len(msg.caption_entities) :
          msg.caption_entities[i] \notin {"url", "text_link"}
    /\ \A m \in {MarkHttp, MarkHttps, MarkTme} :
          ~Contains(m, LowerText(msg.text)) /\ ~Contains(m, LowerText(msg.caption))

\* C1: handling a message that carries no url or text_link entity and none of
\* 'http://', 'https://', 't.me/' in its lowercased text or caption changes no
\* spam counter (memory or store), no permission cache, and calls no platform
\* API.
C1_NoLinkNoEffect ==
    [][ (last'.op = "message" /\ LinkFree(last'.msg))
          => (UNCHANGED <<memory, groups, link_spam>> /\ last'.calls = <<>>) ]_vars

\* A message close to a link ("http:/t.me", with a mention entity) from an
\* ordinary user, in a chat where the bot is cached as administrator.
C1_Witness ==
    /\ last.op = "message"
    /\ LinkFree(last.msg)
    /\ last.msg.text = Txt_near
    /\ last.msg.user # OWNER_ID
    /\ last.msg.chat \in BOT_ADMIN_CACHE

\* C2: a link message whose author is an administrator of the chat, known from
\* the cache or from a live check, is never deleted and never reaches the spam
\* counter.
C2_AdminNeverModerated ==
    [][ (/\ last'.op = "message"
         /\ \/ last'.user_admin = "yes"
            \/ last'.msg.user \in Get(USER_ADMIN_CACHE, last'.msg.chat, {}))
          => (/\ last'.deleted # "ok"
              /\ ~last'.spam.called
              /\ last'.user_admin = "yes" => Count(last'.calls, "delete_message") = 0) ]_vars

\* The author passes on the cache alone: the platform no longer lists them.
C2_Witness ==
    /\ last.op = "message"
    /\ last.auth = "yes"
    /\ last.user_admin = "yes"
    /\ <<last.msg.chat, last.msg.user>> \notin tg_admins
    /\ Count(last.calls, "delete_message") = 0

\* C3: in a supergroup where the restriction succeeds, violations spaced far
\* enough to be counted produce no restriction call and the answer false at
\* the updated counts 1 and 2; at the updated count 3 there is exactly one
\* restriction call, the answer is true, the user's counter is cleared in
\* memory and in the store, and mute_until is now + 600.
C3_ThresholdBoundary ==
    (/\ last.op = "message"
     /\ last.spam.called
     /\ last.msg.chat_type = "supergroup"
     /\ ~(last.spam.src = "cache" /\ now < last.spam.prev_mute)
     /\ last.spam.src # "none" => now - last.spam.prev_last >= MUTE_SECONDS)
      => LET updated == IF last.spam.src = "none" \/ now - last.spam.prev_last > SPAM_RESET_SECONDS
                        THEN 1 ELSE last.spam.prev_count + 1
             entry == Get(LINK_SPAM_CACHE, SpamKey(last), NoEntry)
         IN  /\ updated \in {1, 2}
                  => (Count(last.calls, "restrict_chat_member") = 0 /\ ~last.spam.ret)
             /\ (updated = LINK_LIMIT /\ last.spam.ret)
                  => /\ Count(last.calls, "restrict_chat_member") = 1
                     /\ entry.count = 0
                     /\ entry.mute_until = now + MUTE_SECONDS
                     /\ DeleteSpam(last.spam.chat, last.spam.user) \in db_tasks

\* C4: a violation that comes within the reset window of the previous one adds
\* one to the count, whatever the gap (violations at t = 0, 10, 20 reach the
\* counts 1, 2, 3).
C4_EachViolationCounts ==
    (/\ last.op = "message"
     /\ last.spam.called
     /\ last.spam.src # "none"
     /\ ~(last.spam.src = "cache" /\ now < last.spam.prev_mute)
     /\ now - last.spam.prev_last \in 1..SPAM_RESET_SECONDS)
      => last.spam.count = last.spam.prev_count + 1

\* C5: a violation more than 3600 seconds after the user's previous recorded
\* violation leaves the count at 1, whether the previous record came from the
\* cache or from the store.
C5_ResetAfterWindow ==
    (/\ last.op = "message"
     /\ last.spam.called
     /\ last.spam.src \in {"cache", "db"}
     /\ now - last.spam.prev_last > SPAM_RESET_SECONDS)
      => /\ last.spam.count = 1
         /\ ~last.spam.ret
         /\ SpamKey(last) \in DOMAIN LINK_SPAM_CACHE
         /\ LINK_SPAM_CACHE[SpamKey(last)] = SpamEntry(1, now, last.spam.prev_mute)
         /\ UpsertSpam(last.spam.chat, last.spam.user, 1, now) \in db_tasks

\* The previous record, a count of 2, is read from the store.
C5_Witness ==
    /\ last.op = "message"
    /\ last.spam.called
    /\ last.spam.src = "db"
    /\ last.spam.prev_count = 2
    /\ now - last.spam.prev_last > SPAM_RESET_SECONDS
    /\ last.spam.count = 1

\* C6: while the cached mute window of a user is open, a further violation
\* answers muted, leaves the count and the entry as they are, and makes no
\* restriction call.
C6_MutedStaysMuted ==
    (/\ last.op = "message"
     /\ last.spam.called
     /\ last.spam.src = "cache"
     /\ now < last.spam.prev_mute)
      => /\ last.spam.ret
         /\ last.spam.count = last.spam.prev_count
         /\ Count(last.calls, "restrict_chat_member") = 0
         /\ Get(LINK_SPAM_CACHE, SpamKey(last), NoEntry)
              = SpamEntry(last.spam.prev_count, last.spam.prev_last, last.spam.prev_mute)
         /\ \A t \in db_tasks : t.op \notin {"upsert_link_spam", "delete_spam"}

\* A violation ten seconds into the mute window.
C6_Witness ==
    /\ last.op = "message"
    /\ last.spam.called
    /\ last.spam.src = "cache"
    /\ now < last.spam.prev_mute
    /\ now > last.spam.prev_last
    /\ last.spam.ret

\* A cache entry at the threshold that no successful restriction has written.
FailedAtThreshold(e) ==
    e.count >= LINK_LIMIT /\ e.mute_until # e.last_time + MUTE_SECONDS

\* Did the step get as far as the restriction (lines 734-749)?
RestrictionAttempted(calls) ==
    \E i \in 1..Len(calls) :
        \/ calls[i].api = "restrict_chat_member"
        \/ calls[i].api = "get_chat_member" /\ calls[i].note = "can_restrict"

\* C7: when the threshold was reached and the restriction failed, the counter
\* is kept, and the very next violation of that user attempts the restriction
\* again, at the same or a higher count.
C7_FailedMuteRetried ==
    [][ LET key == SpamKey(last') IN
        (/\ last'.op = "message"
         /\ last'.spam.called
         /\ last'.msg.chat_type = "supergroup"
         /\ key \in DOMAIN LINK_SPAM_CACHE
         /\ FailedAtThreshold(LINK_SPAM_CACHE[key])
         /\ now > LINK_SPAM_CACHE[key].last_time)
          => (/\ RestrictionAttempted(last'.calls)
              /\ last'.spam.count >= LINK_SPAM_CACHE[key].count) ]_vars

\* C8: after a successful deletion exactly one notice is sent: the mute notice
\* when the spam counter answered muted, the removal warning otherwise.
C8_OneNotice ==
    (last.op = "message" /\ last.deleted = "ok")
      => /\ last.spam.called
         /\ Count(last.calls, "send_message") = 1
         /\ \A i \in 1..Len(last.calls) :
               last.calls[i].api = "send_message"
                 => /\ i = Len(last.calls)
                    /\ last.calls[i].chat = last.msg.chat
                    /\ last.calls[i].note = IF last.spam.ret THEN "muted" ELSE "removed"

\* The violation that brought the mute: one restriction, one mute notice.
C8_Witness ==
    /\ last.op = "message"
    /\ last.deleted = "ok"
    /\ last.spam.ret
    /\ Count(last.calls, "restrict_chat_member") = 1
    /\ Count(last.calls, "send_message") = 1

\* C9: when the deletion fails the handler stops: the spam counter is not
\* consulted, no member is restricted, no notice is sent, and no spam count
\* changes in memory or in the store.
C9_DeleteFailureIsTerminal ==
    [][ (last'.op = "message" /\ last'.deleted = "failed")
          => (/\ ~last'.spam.called
              /\ Count(last'.calls, "restrict_chat_member") = 0
              /\ Count(last'.calls, "send_message") = 0
              /\ link_spam' = link_spam
              /\ \A t \in db_tasks' \ db_tasks : t.op \notin {"upsert_link_spam", "delete_spam"}
              /\ {LINK_SPAM_CACHE'[k] : k \in DOMAIN LINK_SPAM_CACHE'}
                    = {LINK_SPAM_CACHE[k] : k \in DOMAIN LINK_SPAM_CACHE}
              /\ last'.migrated = <<>> => LINK_SPAM_CACHE' = LINK_SPAM_CACHE) ]_vars

\* The deletion fails for a user who already has two violations on record.
C9_Witness ==
    /\ last.op = "message"
    /\ last.deleted = "failed"
    /\ <<last.msg.chat, last.msg.user>> \in DOMAIN LINK_SPAM_CACHE
    /\ LINK_SPAM_CACHE[<<last.msg.chat, last.msg.user>>].count = LINK_LIMIT - 1

\* C10: when the platform reports that a chat moved to a new id, nothing stays
\* under the old id (administrator flag, user-admin cache, reminder messages,
\* verification time, spam counters in memory, the persisted groups and
\* link_spam rows), and the equivalent records exist under the new id.
C10_MigrationMovesEverything ==
    [][ (last'.op = "message" /\ last'.migrated # <<>>)
          => LET old == last'.migrated[1][1]
                 new == last'.migrated[1][2]
             IN  /\ old \notin BOT_ADMIN_CACHE'
                 /\ old \notin DOMAIN USER_ADMIN_CACHE'
                 /\ old \notin DOMAIN REMINDER_MESSAGES'
                 /\ old \notin DOMAIN ADMIN_VERIFY_CACHE'
                 /\ \A k \in DOMAIN LINK_SPAM_CACHE' : k[1] # old
                 /\ DeleteGroup(old) \in db_tasks'
                 /\ DeleteSpamChat(old) \in db_tasks'
                 /\ \A k \in DOMAIN LINK_SPAM_CACHE :
                       k[1] = old => <<new, k[2]>> \in DOMAIN LINK_SPAM_CACHE'
                 /\ \A k \in DOMAIN link_spam :
                       k[1] = old =>
                         \E t \in db_tasks' :
                            /\ t.op = "upsert_link_spam"
                            /\ t.chat = new /\ t.user = k[2]
                            /\ t.count = link_spam[k].count ]_vars

\* The live checks of the bot's standing in chat c that a step made
\* (ensure_bot_admin_live, line 224).
LiveChecks(calls, c) ==
    Cardinality({i \in 1..Len(calls) :
                    /\ calls[i].api = "get_chat_member"
                    /\ calls[i].note = "bot"
                    /\ calls[i].chat = c})

\* C15: when the live authority check fails with a transient API error, the
\* bot-admin flag, the user-admin set and the reminder-message list of the
\* chat stay exactly as they were, and a chat that was authorized is not
\* turned into unauthorized. (The platform holds the bot as administrator
\* with the delete right here, so a live check that does not authorize the
\* chat has failed with an error other than "unreachable".)
C15_TransientErrorKeepsCache ==
    [][ LET c == last'.msg.chat IN
        (/\ last'.op = "message"
         /\ last'.migrated = <<>>
         /\ LiveChecks(last'.calls, c) = 1
         /\ CanDelete(tg_bot[c])
         /\ last'.auth = "no")
          => (/\ c \in BOT_ADMIN_CACHE => c \in BOT_ADMIN_CACHE'
              /\ c \in DOMAIN USER_ADMIN_CACHE <=> c \in DOMAIN USER_ADMIN_CACHE'
              /\ Get(USER_ADMIN_CACHE', c, {}) = Get(USER_ADMIN_CACHE, c, {})
              /\ c \in DOMAIN REMINDER_MESSAGES <=> c \in DOMAIN REMINDER_MESSAGES'
              /\ Get(REMINDER_MESSAGES', c, <<>>) = Get(REMINDER_MESSAGES, c, <<>>)) ]_vars

\* C16: when the live authority check finds the chat unreachable, the check
\* reports unauthorized and nothing cached or persisted stays for the chat:
\* bot-admin flag, user-admin set, reminder list, spam counters in memory,
\* the groups row and the link_spam rows.
C16_UnreachableClearsAll ==
    [][ LET c == last'.msg.chat IN
        (/\ last'.op = "message"
         /\ LiveChecks(last'.calls, c) = 1
         /\ tg_bot[c] = "gone")
          => (/\ last'.auth = "no"
              /\ c \notin BOT_ADMIN_CACHE'
              /\ c \notin DOMAIN USER_ADMIN_CACHE'
              /\ c \notin DOMAIN REMINDER_MESSAGES'
              /\ \A k \in DOMAIN LINK_SPAM_CACHE' : k[1] # c
              /\ c \in DOMAIN groups => DeleteGroup(c) \in db_tasks'
              /\ (\E k \in DOMAIN link_spam : k[1] = c) => DeleteSpamChat(c) \in db_tasks') ]_vars

\* The chat was verified less than the verification interval ago.
Fresh(c) == c \in DOMAIN ADMIN_VERIFY_CACHE /\ now - ADMIN_VERIFY_CACHE[c] < ADMIN_VERIFY_SECONDS

\* C17: ensure_bot_admin_live answers from the cached flag, without a platform
\* call, for a chat verified less than 300 seconds ago, and checks live
\* otherwise; so a chat is checked live at most once per interval.
C17_VerifyInterval ==
    [][ LET c == last'.msg.chat IN
        (last'.op = "message" /\ last'.auth # "none")
          => (/\ Fresh(c) => /\ \A d \in Chats : LiveChecks(last'.calls, d) = 0
                             /\ last'.auth = "yes" <=> c \in BOT_ADMIN_CACHE
                             /\ ADMIN_VERIFY_CACHE' = ADMIN_VERIFY_CACHE
              /\ ~Fresh(c) => /\ LiveChecks(last'.calls, c) = 1
                              /\ ADMIN_VERIFY_CACHE'[c] = now
              /\ \A d \in Chats :
                    /\ LiveChecks(last'.calls, d) <= 1
                    /\ Fresh(d) => LiveChecks(last'.calls, d) = 0
                    /\ LiveChecks(last'.calls, d) = 1 => ADMIN_VERIFY_CACHE'[d] = now) ]_vars

\* A link ten seconds or more after the live check that authorized the chat
\* is handled on the cached flag.
C17_Witness ==
    /\ last.op = "message"
    /\ last.auth = "yes"
    /\ \A d \in Chats : LiveChecks(last.calls, d) = 0
    /\ last.msg.chat \in DOMAIN ADMIN_VERIFY_CACHE
    /\ now > ADMIN_VERIFY_CACHE[last.msg.chat]

\* Did the step ask the platform about the author of the message?
AskedAboutAuthor(obs) ==
    \E i \in 1..Len(obs.calls) :
        /\ obs.calls[i].api = "get_chat_member"
        /\ obs.calls[i].note = "user"
        /\ obs.calls[i].chat = obs.msg.chat
        /\ obs.calls[i].user = obs.msg.user

\* C18: is_user_admin adds a user to the chat's user-admin set only when the
\* live check reports an administrator; a negative or failed check adds
\* nothing and is not remembered, so the next action of that user is checked
\* live again (and a user promoted in the meantime is then recognised).
C18_OnlyPositiveCached ==
    [][ LET c == last'.msg.chat
            u == last'.msg.user
        IN  (last'.op = "message" /\ last'.user_admin # "none")
              => (/\ (last'.user_admin = "yes" /\ AskedAboutAuthor(last'))
                        => (<<c, u>> \in tg_admins /\ u \in Get(USER_ADMIN_CACHE', c, {}))
                  /\ last'.user_admin = "no"
                        => (AskedAboutAuthor(last') /\ u \notin Get(USER_ADMIN_CACHE', c, {}))
                  /\ \A d \in Chats :
                       \A v \in Get(USER_ADMIN_CACHE', d, {}) \ Get(USER_ADMIN_CACHE, d, {}) :
                          \/ d = c /\ v = u /\ AskedAboutAuthor(last') /\ <<c, u>> \in tg_admins
                          \/ \E i \in 1..Len(last'.migrated) :
                                /\ last'.migrated[i][2] = d
                                /\ v \in Get(USER_ADMIN_CACHE, last'.migrated[i][1], {})) ]_vars

\* A user with a violation on record, promoted since, is found to be an
\* administrator by the live check of their next link.
C18_Witness ==
    /\ last.op = "message"
    /\ last.user_admin = "yes"
    /\ AskedAboutAuthor(last)
    /\ <<last.msg.chat, last.msg.user>> \in DOMAIN LINK_SPAM_CACHE
    /\ last.msg.user \in Get(USER_ADMIN_CACHE, last.msg.chat, {})

\* The jobs of the queue that refer to chat c.
JobsOf(js, c) == {j \in js : j.chat = c}

\* Did the step send a reminder to chat c, or call leave_chat for it?
Reminded(calls, c) ==
    \E i \in 1..Len(calls) :
        calls[i].api = "send_message" /\ calls[i].note = "reminder" /\ calls[i].chat = c
LeftChat(calls, c) ==
    \E i \in 1..Len(calls) : calls[i].api = "leave_chat" /\ calls[i].chat = c

\* C11: once the bot has been promoted to administrator of a chat it had no
\* rights in, and the promotion update has been handled, no reminder is sent
\* to the chat and the bot does not call leaveChat for it, for as long as it
\* stays administrator. (The bot starts without rights, so an administrator
\* with no update pending is one whose promotion has been handled.)
C11_PromotionStopsJobs ==
    [][ \A c \in Chats :
          (IsAdminStatus(tg_bot[c]) /\ events = <<>>)
            => (~Reminded(last'.calls, c) /\ ~LeftChat(last'.calls, c)) ]_vars

\* C19: the job queue holds at most one pending auto-leave job per chat.
C19_OneAutoLeavePerChat ==
    \A c \in Chats :
        Cardinality({j \in JobsOf(jobs, c) : j.name = "auto_leave"}) <= 1

\* C20: in the step in which the chat's admin status becomes true, and in the
\* step in which the auto-leave job calls leaveChat, every reminder and
\* auto-leave job of the chat is removed: none is pending afterwards.
C20_JobsCancelledTogether ==
    [][ \A c \in Chats :
          (\/ c \notin BOT_ADMIN_CACHE /\ c \in BOT_ADMIN_CACHE'
           \/ last'.op = "auto_leave" /\ LeftChat(last'.calls, c))
            => JobsOf(jobs', c) = {} ]_vars

\* ------------------------------------------------------------ broadcast claims
\* C12: at every point of a broadcast run the count of recipients sent to is
\* at most the total computed at its start, also when users enter the
\* directory while the run reads it.
C12_SentWithinTotal == bc.sent <= bc.total

\* A recipient whose chat answers every send with Forbidden or BadRequest.
PermanentFailure(cid) == SendAnswer(cid) \in {"forbidden", "bad_request"}

\* C13: a recipient that fails permanently is sent to once by the run, and
\* once the run has ended and no write is pending it is in neither table of
\* the directory.
C13_FailedRecipientsPruned ==
    \A i \in 1..Len(bc.log) :
        PermanentFailure(bc.log[i].chat) =>
            /\ bc.log[i].tries <= 1
            /\ (bc.done /\ db_tasks = {}) =>
                   (bc.log[i].chat \notin users /\ bc.log[i].chat \notin DOMAIN groups)

\* C14: the percentages a run shows never decrease and lie in 0..100, the bar
\* has min(10, percent div 10) of 10 segments filled, and an update is shown
\* for every count that is a multiple of 50 and for the count equal to total.
C14_ProgressWellFormed ==
    /\ \A i \in 1..Len(bc.progress) :
          /\ bc.progress[i].percent \in 0..100
          /\ bc.progress[i].blocks = Min(BAR_BLOCKS, bc.progress[i].percent \div 10)
          /\ i > 1 => bc.progress[i - 1].percent <= bc.progress[i].percent
    /\ \A n \in 1..bc.sent :
          (n % PROGRESS_EVERY = 0 \/ n = bc.total) =>
              \E i \in 1..Len(bc.progress) : bc.progress[i].sent = n

\* C21: the owner has one draft at most. A proposal without content stores
\* nothing, a proposal with content replaces the draft, choosing a target and
\* cancelling remove it, and a target chosen while no draft is stored starts
\* no run and hands no write to the store.
C21_OneDraft ==
    [][ /\ (last'.op = "broadcast" /\ last'.msg.content = NoDraft)
            => PENDING_BROADCAST' = PENDING_BROADCAST
        /\ (last'.op = "broadcast" /\ last'.msg.user = OWNER_ID /\ last'.msg.command
              /\ last'.msg.content # NoDraft)
            => PENDING_BROADCAST' = last'.msg.content
        /\ last'.op \in {"broadcast_target", "broadcast_cancel"}
            => PENDING_BROADCAST' = NoDraft
        /\ (last'.op = "broadcast_target" /\ PENDING_BROADCAST = NoDraft)
            => (bc' = bc /\ db_tasks' = db_tasks) ]_vars

\* A target is chosen a second time, after the run of the first choice ended.
C21_Witness ==
    /\ last.op = "broadcast_target"
    /\ bc.done /\ bc.pc = "idle"
    /\ Len(bc.log) > 0
    /\ PENDING_BROADCAST = NoDraft

\* C22: a recipient whose chat answers the first send with a rate-limit signal
\* and accepts the next one is sent to again by the run, and receives the
\* message.
C22_RateLimitedRetried ==
    \A i \in 1..Len(bc.log) :
        SendAnswer(bc.log[i].chat) = "retry_after" =>
            (bc.log[i].tries = 2 /\ bc.log[i].delivered)

\* C23: a link message is deleted at most once, and only after the check of
\* the bot's authority answered true and the check of the author answered
\* "no administrator": the live question about the author precedes the delete
\* call, and neither check is made after it.
C23_DeleteAfterChecks ==
    last.op = "message" =>
        /\ Count(last.calls, "delete_message") <= 1
        /\ \A i \in 1..Len(last.calls) :
              last.calls[i].api = "delete_message" =>
                  /\ last.auth = "yes"
                  /\ last.user_admin = "no"
                  /\ \E j \in 1..(i - 1) :
                        /\ last.calls[j].api = "get_chat_member"
                        /\ last.calls[j].note = "user"
                        /\ last.calls[j].user = last.msg.user
                  /\ \A j \in (i + 1)..Len(last.calls) :
                        last.calls[j].note \notin {"bot", "user"}

\* A link message is deleted after a live check of the bot and of the author.
C23_Witness ==
    /\ last.op = "message"
    /\ last.deleted = "ok"
    /\ LiveChecks(last.calls, last.msg.chat) = 1
    /\ AskedAboutAuthor(last)
    /\ last.calls[Len(last.calls)].api = "send_message"

\* C24: the update "added without rights" leaves the chat unauthorized with
\* exactly five reminders, 300 s apart, and one auto-leave after the last of
\* them; while the bot is a plain member it does not leave a chat that still
\* has a reminder to fire; and a reminder that fires for an authorized chat
\* sends nothing and leaves no job of the chat in the queue.
C24_ReminderSchedule ==
    [][ \A c \in Chats :
          /\ (/\ last'.op = "my_chat_member" /\ last'.chat = c
               /\ events # <<>> /\ Head(events).chat = c
               /\ Head(events).new = "member" /\ Head(events).old \in {"left", "kicked"})
                => (c \notin BOT_ADMIN_CACHE' /\ JobsOf(jobs', c) = ReminderJobs(c, now))
          /\ (LeftChat(last'.calls, c) /\ tg_bot[c] = "member")
                => ~\E j \in jobs : j.chat = c /\ j.name = "admin_reminder"
          /\ (/\ last'.op = "admin_reminder" /\ last'.chat = c
               /\ (c \in BOT_ADMIN_CACHE \/ IsAdminStatus(tg_bot[c])))
                => (~Reminded(last'.calls, c) /\ JobsOf(jobs', c) = {}) ]_vars

\* C25: the update "demoted or removed" leaves the chat unauthorized with one
\* job, the re-check 60 s later, and nothing else of the chat in the queue;
\* the re-check asks the platform once and calls leaveChat only when the
\* answer confirms that the bot is no administrator, so a bot that is
\* administrator again when the job fires does not leave.
C25_DemotionGrace ==
    [][ \A c \in Chats :
          /\ (/\ last'.op = "my_chat_member" /\ last'.chat = c
               /\ events # <<>> /\ Head(events).chat = c
               /\ Head(events).old = "administrator"
               /\ Head(events).new \in {"member", "left", "kicked"})
                => (/\ c \notin BOT_ADMIN_CACHE'
                    /\ JobsOf(jobs', c) = {Job("auto_leave", c, now + 60, 0)})
          /\ (last'.op = "auto_leave" /\ last'.chat = c)
                => (/\ LiveChecks(last'.calls, c) = 1
                    /\ LeftChat(last'.calls, c)
                          => (last'.auth = "no" /\ ~IsAdminStatus(tg_bot[c]))) ]_vars

\* C26: a change of a member's standing in a chat empties the chat's
\* user-admin set: the next link message of a user who is no administrator on
\* the platform any more, in a chat where the bot is authorized, is checked
\* live and deleted, not let through on the cache.
C26_MembershipChangeClearsUserAdmins ==
    [][ (/\ last'.op = "message"
         /\ last'.auth = "yes"
         /\ last'.migrated = <<>>
         /\ <<last'.msg.chat, last'.msg.user>> \notin tg_admins)
          => (/\ AskedAboutAuthor(last')
              /\ Count(last'.calls, "delete_message") = 1) ]_vars

\* C27: in a baseline group no member is ever restricted and the spam
\* counter never answers "muted", yet it keeps counting: a violation within
\* the reset window of the user's previous one adds one to the count, at and
\* beyond the threshold as well.
C27_GroupCountsWithoutMute ==
    (/\ last.op = "message"
     /\ last.spam.called
     /\ last.msg.chat_type = "group")
      => /\ Count(last.calls, "restrict_chat_member") = 0
         /\ ~last.spam.ret
         /\ (/\ last.spam.src # "none"
             /\ now - last.spam.prev_last \in 1..SPAM_RESET_SECONDS)
               => last.spam.count = last.spam.prev_count + 1

\* C28: when the memory holds no counter for the author and the read of the
\* store gives no row, because there is none or because the read failed, the
\* violation counts as the first one: the count is 1, the answer is "not
\* muted", and the notice about the deleted message is sent.
C28_ReadFailureIsNoRecord ==
    (/\ last.op = "message"
     /\ last.spam.called
     /\ last.spam.src = "none")
      => /\ last.deleted = "ok"
         /\ last.spam.count = 1
         /\ Get(LINK_SPAM_CACHE, SpamKey(last), NoEntry).count = 1
         /\ ~last.spam.ret
         /\ \E i \in 1..Len(last.calls) :
               last.calls[i].api = "send_message" /\ last.calls[i].note = "removed"

\* The store holds a row for the author, and the read of it failed.
C28_Witness ==
    /\ last.op = "message"
    /\ last.spam.called
    /\ last.spam.src = "none"
    /\ SpamKey(last) \in DOMAIN link_spam
    /\ link_spam[SpamKey(last)].count >= 1
    /\ now - link_spam[SpamKey(last)].last_time >= MUTE_SECONDS

\* C29: when the promotion of the bot in a chat is handled while a reminder
\* or auto-leave job of that chat waits for the answer to its check, the job
\* on resuming sends no reminder, does not call leaveChat, and leaves the
\* chat in the bot-admin cache.
C29_StaleJobSuppressed ==
    [][ LET c == suspended.job.chat IN
        (/\ suspended.waiting /\ ~suspended'.waiting
         /\ ~suspended.flagged
         /\ c \in BOT_ADMIN_CACHE
         /\ IsAdminStatus(tg_bot[c]))
          => (/\ ~Reminded(last'.calls, c)
              /\ ~LeftChat(last'.calls, c)
              /\ c \in BOT_ADMIN_CACHE') ]_vars


\* The writes of a counter are all applied and the memory still holds it.
WritesSettled(key) ==
    /\ db_tasks = {}
    /\ key \in DOMAIN LINK_SPAM_CACHE

\* The row of the store would let a fresh read go on from a higher count than
\* the memory's: it counts more and lies within the reset window of the
\* memory's last violation.
RowAhead(key) ==
    /\ key \in DOMAIN link_spam
    /\ link_spam[key].count > LINK_SPAM_CACHE[key].count
    /\ LINK_SPAM_CACHE[key].last_time - link_spam[key].last_time <= SPAM_RESET_SECONDS

\* C30: in whatever order the pending writes of a counter are applied, once
\* all of them are applied the row of the store does not let a later read go
\* on from a higher count than the memory's last one, and when the user was
\* muted the store holds no row for the counter.
C30_WritesInAnyOrder ==
    \A key \in DOMAIN LINK_SPAM_CACHE :
      WritesSettled(key) =>
        /\ ~RowAhead(key)
        /\ LINK_SPAM_CACHE[key].mute_until # 0 => key \notin DOMAIN link_spam


\* C31: a broadcast run, once its target is chosen, reaches the 'Broadcast
\* Completed' report, whatever the directory holds and whatever the sends
\* answer (accepted, rate limit, refusal, migration).
C31_BroadcastCompletes ==
    (bc.pc # "idle") ~> (bc.pc = "idle" /\ bc.done /\ last.op = "broadcast_done")

\* A run over more than one page, with a recipient that does not accept the
\* send, has sent its report.
C31_Witness ==
    /\ last.op = "broadcast_done"
    /\ bc.done
    /\ bc.sent > BATCH_SIZE
    /\ \E i \in 1..Len(bc.log) : ~bc.log[i].delivered


\* C32: when the live check of a chat is answered with a migration, the state
\* moves to the new id once, the new id is checked live exactly once, and the
\* answer of that check is the answer of the call.
C32_MigrationRetriedOnce ==
    [][ LET c == last'.msg.chat
            n == NewChatId(c) IN
        (last'.op = "message" /\ last'.migrated # <<>>)
          => /\ last'.migrated = << <<c, n>> >>
             /\ LiveChecks(last'.calls, c) = 1
             /\ LiveChecks(last'.calls, n) = 1
             /\ last'.auth = "yes" <=> (IsAdminStatus(tg_bot[n]) /\ CanDelete(tg_bot[n])) ]_vars


\* The recipients of a target in the order the run reads them: the users by
\* id, then the groups flagged as administered by id.
Recipients(target) ==
    (IF WantsUsers(target) THEN OrderBy(users) ELSE <<>>)
      \o (IF WantsGroups(target) THEN OrderBy(AdminGroups(groups)) ELSE <<>>)

\* No user has joined the directory since the start.
DirectoryUntouched == users \cap NewUsers = {}

\* C33: when the directory was not modified, a completed run has sent once to
\* every recipient of its target, the users in ascending id order and then the
\* groups in ascending id order, and to no one else; sent equals total.
C33_EveryRecipientOnce ==
    (bc.done /\ DirectoryUntouched)
      => /\ Len(bc.log) = Len(Recipients(bc.target))
         /\ \A i \in 1..Len(bc.log) :
               /\ bc.log[i].chat = Recipients(bc.target)[i]
               /\ bc.log[i].tries = 1
         /\ bc.sent = bc.total
         /\ bc.sent = Len(bc.log)

\* A run to the users and the groups of an unmodified directory of a full page
\* of users and a group has completed.
C33_Witness ==
    /\ bc.done
    /\ DirectoryUntouched
    /\ bc.target = "bc_target_all"
    /\ Cardinality(users) = BATCH_SIZE
    /\ AdminGroups(groups) # {}


\* The update at the head of the queue reports the bot's promotion, or its
\* demotion or removal.
PromotionEvent(ev) == ev.new = "administrator" /\ ev.old # "administrator"
DemotionEvent(ev) == ev.old = "administrator" /\ ev.new \in {"member", "left", "kicked"}

\* C34: once the update of the bot's promotion in a chat has been handled, a
\* call of ensure_bot_admin_live for the chat within the verification interval
\* of the last live check answers true, also when that check had found the
\* bot unauthorized; once the update of its demotion or removal has been
\* handled, such a call answers false.
C34_EventOverridesInterval ==
    [][ (last'.op = "my_chat_member" /\ events # <<>>)
          => LET ev == Head(events)
                 c == ev.chat IN
             \A d \in {0, 10} :
                (/\ c \in DOMAIN ADMIN_VERIFY_CACHE'
                 /\ VerifiedRecently(now + d, ADMIN_VERIFY_CACHE'[c]))
                  => /\ PromotionEvent(ev)
                          => ensure_bot_admin_live(Mem', c, now + d, {}).ret
                     /\ DemotionEvent(ev)
                          => ~ensure_bot_admin_live(Mem', c, now + d, {}).ret ]_vars

\* The promotion update of a chat has been handled within the verification
\* interval of a live check that had found the bot unauthorized (the row that
\* check wrote is still the one in the store).
C34_Witness ==
    \E c \in Chats :
      /\ last.op = "my_chat_member"
      /\ last.chat = c
      /\ \E i \in 1..Len(last.calls) : last.calls[i].note = "welcome"
      /\ Fresh(c)
      /\ c \in DOMAIN groups
      /\ ~groups[c].is_admin_cached
      /\ groups[c].last_checked_at = ADMIN_VERIFY_CACHE[c]


\* Every change of the bot's standing in chat c has been reported and
\* handled, so what the bot saw last of c is what the platform holds.
ObservedUpToDate(c) == events = <<>> /\ tg_bot[c] # "migrated"

\* C35: a chat is in the bot-admin cache only if what the bot saw last of its
\* standing there, by a live check or a membership update, was administrator
\* with the right to delete messages.
C35_CacheImpliesDeleteRight ==
    \A c \in BOT_ADMIN_CACHE :
        ObservedUpToDate(c) => (IsAdminStatus(tg_bot[c]) /\ CanDelete(tg_bot[c]))

====
